---- MODULE Spec2Model ----
(***************************************************************************)
(* State-machine model of the arb-ami bot: the trade executor              *)
(* (core/trade_executor.py), the Panora swap submitter                     *)
(* (exchanges/panora_executor.py), the Panora quote client                 *)
(* (exchanges/panora.py), the price store (core/price_collector.py) and    *)
(* the verification cooldown of the arbitrage engine                       *)
(* (core/arbitrage_engine.py).                                             *)
(*                                                                         *)
(* Quantities are integers counted in 1/QS of a coin, prices are integer   *)
(* USDT per coin, so a notional price * qty is counted in 1/QS USDT.       *)
(* Time is an integer count of clock ticks.                                *)
(***************************************************************************)
EXTENDS Integers, Naturals, Sequences, FiniteSets, TLC

\* ------------------------------------------------------------------------
\* Program constants
\* ------------------------------------------------------------------------
QS == 1000000                   \* finest lot precision of _floor_qty: 1e-6
trade_amount_usdt == 10         \* settings.trade_amount_usdt default

None == 0 - 1                   \* Python None for numeric optionals

Min(a, b) == IF a <= b THEN a ELSE b
Max(a, b) == IF a >= b THEN a ELSE b

\* ------------------------------------------------------------------------
\* Bounds of the model
\* ------------------------------------------------------------------------
MaxExec == 2                    \* executions dispatched in one behaviour
MaxTicks == 3                   \* seconds the clock advances in one behaviour
MaxUpdates == 3                 \* PriceCollector.update calls in one behaviour
MaxVerify == 2                  \* verification calls issued in one behaviour
MaxCalls == 3                   \* get_swap_quote / execute_swap calls started
panora_poll_interval == 2       \* settings.panora_poll_interval, in seconds
panora_api_min_interval == 1    \* settings.panora_api_min_interval, rounded
                                \* up to whole seconds

Tasks == {1, 2}                 \* execution tasks alive at the same time

VARIABLES
    \* ---- TradeExecutor ----
    dry_run,          \* self.dry_run
    panora_executor,  \* TRUE iff self.panora_executor is set
    wallet_str,       \* TRUE iff _get_account() yields a wallet address
    tri_locked,       \* self._tri_lock.locked()
    tri_waiters,      \* tasks suspended in self._tri_lock.acquire()
    pc,               \* position of each execution task
    call,             \* arguments and locals of each execution task
    result,           \* return value of each execution task
    legs,             \* orders / swaps each task has sent out
    signals,          \* signal record each task has emitted
    nexec,            \* number of executions dispatched so far
    \* ---- wall clock ----
    now,              \* time.time(), in whole seconds
    \* ---- PriceCollector ----
    prices,           \* self._prices: symbol -> exchange -> PriceData
    last_update,      \* arguments of the most recent update() call
    nupdates,         \* number of update() calls so far
    \* ---- ArbitrageEngine ----
    skip_panora_verify,  \* self.skip_panora_verify
    panora_client,       \* TRUE iff self.panora_client is set
    panora_apt_client,   \* TRUE iff self.panora_apt_client is set
    trade_executor,      \* TRUE iff self.trade_executor is set
    last_verify,         \* self._last_verify: verify key -> time.time()
    epc,                 \* where the engine coroutine is suspended
    echeck,              \* the detection call the engine is in / was last in
    verify_log,          \* verification calls issued so far, in order
    last_dispatch,       \* the execution task created most recently
    \* ---- PanoraClient ----
    quote_cache,         \* self._quote_cache: cache key -> (quote, fetched at)
    unit_price_cache,    \* self._unit_price_cache: direction -> (price, at)
    rate_limited,        \* self.rate_limited
    total_requests,      \* self._total_requests
    cache_hits,          \* self._cache_hits
    qcall,               \* the get_swap_quote call of each caller
    ncalls,              \* get_swap_quote / execute_swap calls so far
    \* ---- PanoraExecutor ----
    swap,                \* the execute_swap call
    \* ---- ArbitrageEngine, detection on priced quotes ----
    engine_cfg,          \* self.bybit_fee, mexc_fee, panora_fee, min_profit
    scan,                \* quotes, locals, log lines and tasks of a check
    \* ---- main() and the exchange feed ----
    main_pc,             \* where main() is
    feed                 \* the BybitWS.connect coroutine

execVars == <<dry_run, panora_executor, wallet_str, tri_locked, tri_waiters,
              pc, call, result, legs, signals, nexec>>

storeVars == <<prices, last_update, nupdates>>

engineVars == <<skip_panora_verify, panora_client, panora_apt_client,
                trade_executor, last_verify, epc, echeck, verify_log,
                last_dispatch>>

clientVars == <<quote_cache, unit_price_cache, rate_limited, total_requests,
                cache_hits, qcall, ncalls, swap>>

procVars == <<main_pc, feed>>

vars == <<execVars, now, storeVars, engineVars, clientVars, engine_cfg, scan,
          procVars>>

\* everything outside the trade executor
nonExecVars == <<now, storeVars, engineVars, clientVars, engine_cfg, scan,
                 procVars>>

\* everything outside the price store, the clock apart
nonStoreVars == <<execVars, engineVars, clientVars, engine_cfg, scan,
                  procVars>>

\* everything outside the engine, the clock and the priced check apart
nonEngineVars == <<execVars, storeVars, clientVars, engine_cfg, procVars>>

\* everything outside the Panora client and submitter, the clock apart
nonClientVars == <<execVars, storeVars, engineVars, engine_cfg, scan,
                   procVars>>

\* ------------------------------------------------------------------------
\* TradeExecutor: pure helpers
\* ------------------------------------------------------------------------

\* a flooring that keeps two decimals whatever the size of the quantity
floor_qty_two_decimals(qty) ==
    (qty \div (QS \div 100)) * (QS \div 100)

\* _floor_qty: floor a quantity to exchange lot precision.
floor_qty(qty) ==
    IF qty >= 100 * QS THEN (qty \div QS) * QS
    ELSE IF qty >= QS THEN (qty \div (QS \div 100)) * (QS \div 100)
    ELSE IF qty >= QS \div 100 THEN (qty \div (QS \div 10000)) * (QS \div 10000)
    ELSE qty

\* Safety cap of execute_cex_cex / execute_dex_cex / _execute_triangular_locked:
\* safe_qty = min(qty, trade_amount_usdt / buy_price).
safe_qty_of(qty, buy_price) ==
    Min(qty, (trade_amount_usdt * QS) \div buy_price)

\* a / b in float arithmetic, for a >= 0 and b > 0: the quotient rounded to
\* the nearest representable amount
fdiv(a, b) == (2 * a + b) \div (2 * b)

\* a hedge of as many coins as were bought
hedge_qty_of_same_qty(safe_qty, in_price, out_price) == safe_qty

\* Hedge quantity of the triangular shape:
\* ami_to_sell = safe_qty * (cex_apt_ask / cex_ami_bid).
hedge_qty_of(safe_qty, in_price, out_price) ==
    fdiv(safe_qty * in_price, out_price)

\* ------------------------------------------------------------------------
\* Inputs of the executor entry points
\* ------------------------------------------------------------------------
DexCexDirections == {"BUY_DEX_SELL_CEX", "BUY_CEX_SELL_DEX", "UNKNOWN"}
TriDirections == {"APT_TO_AMI", "AMI_TO_APT", "UNKNOWN"}
PricePairs == {<<2, 5>>, <<5, 5>>}          \* <<buy price, sell price>>
Qtys == {1500000, 8000000}                  \* 1.5 and 8 coins
QuoteKinds == {"none", "synthetic", "real"}
WalletBalances == {None, 100000, 20000000}  \* a failed read, 0.1, 20 coins
CexBalances == {0, 20000000}                \* missing / empty, 20 coins
SwapOutcomes == {"tx", "failed", "failed_after_submit",
                 "timeout", "timeout_after_submit"}
\* The executor passes trade_type=... to execute_swap.  An execute_swap that
\* does not take that keyword (PanoraExecutor.execute_swap as it stands)
\* raises TypeError at the call, before anything is awaited.
SwapCallOutcomes == SwapOutcomes \cup {"type_error"}
OrderOutcomes == {"order_id", "rejected", "unsent", "timeout"}

\* A Panora quote: kind "real" carries transaction data built for `amount`
\* of the from-token, kind "synthetic" is price * amount with no txData.
\* to_amount is parse_to_token_amount of the quote, txdata tells whether
\* steps 3 and 4 of execute_swap get an entry function out of it: "ok",
\* "bad" (a payload that is rejected) or "none" (no payload).
MkQuote(kind, dir, amount, to_amount, txdata) ==
    [kind |-> kind, dir |-> dir, amount |-> amount, to_amount |-> to_amount,
     txdata |-> txdata]

NoQuote == MkQuote("none", "none", 0, None, "none")

Quote(kind, amount) ==
    IF kind = "none" THEN NoQuote
    ELSE MkQuote(kind, "none", amount, None,
                 IF kind = "real" THEN "ok" ELSE "none")

\* PanoraClient.is_synthetic
is_synthetic(quote) == quote.kind = "synthetic"

NoCall == [shape |-> "none", direction |-> "none", cex_name |-> "none",
           buy_price |-> 0, sell_price |-> 0, qty |-> 0,
           prefetched_quote |-> NoQuote,
           safe_qty |-> 0, hedge_qty |-> 0,
           wallet_bal |-> None, cex_bal |-> None, bal_check |-> "none",
           swap |-> "none", exit |-> "none"]

NoSignal == [type |-> "none"]

\* ------------------------------------------------------------------------
\* PanoraExecutor.execute_swap, step 2: which quote the transaction is
\* built from.  A prefetched quote is reused iff present and not synthetic,
\* otherwise a quote for from_amount is fetched with force_fresh=True.
\* ------------------------------------------------------------------------
\* a reuse test that forgets the synthetic check
reuse_prefetched_any(prefetched_quote) == prefetched_quote.kind # "none"

\* `prefetched_quote is not None and not is_synthetic(prefetched_quote)`
reuse_prefetched(prefetched_quote) ==
    prefetched_quote.kind # "none" /\ ~is_synthetic(prefetched_quote)

\* from-token amount of the transaction execute_swap signs and submits
swap_chain_amount(from_amount, prefetched_quote) ==
    IF reuse_prefetched(prefetched_quote) THEN prefetched_quote.amount
    ELSE from_amount

\* A DEX leg as it reaches the chain; price is the USDT value of one
\* from-token (1 when the from-token is USDT).
DexLeg(from_amount, prefetched_quote, price) ==
    [kind |-> "dex", side |-> "swap",
     qty |-> swap_chain_amount(from_amount, prefetched_quote),
     notional |-> swap_chain_amount(from_amount, prefetched_quote) * price]

SwapSubmitted(outcome) ==
    outcome \in {"tx", "failed_after_submit", "timeout_after_submit"}

\* _cex_buy / _cex_sell: the quantity is floored; a quantity floored to
\* zero sends nothing; otherwise the trader's place_market_order is called.
cex_qty(qty) == floor_qty(qty)

OrderSent(qty, outcome) == cex_qty(qty) > 0 /\ outcome # "unsent"

CexLeg(side, qty, price) ==
    [kind |-> "cex", side |-> side, qty |-> cex_qty(qty),
     notional |-> cex_qty(qty) * price]

CexLegs(side, qty, price, outcome) ==
    IF OrderSent(qty, outcome) THEN {CexLeg(side, qty, price)} ELSE {}

\* return value of _cex_buy / _cex_sell is an order id
OrderOk(qty, outcome) == cex_qty(qty) > 0 /\ outcome = "order_id"

\* ------------------------------------------------------------------------
\* TradeExecutor._tri_lock  (asyncio.Lock)
\* ------------------------------------------------------------------------
\* a lock whose locked() test never reports the holder
lock_never_locked == FALSE

\* lock.locked()
lock_locked == tri_locked

\* an exit that leaves the lock held
ReleaseLock_never(t, newpc) ==
    /\ pc' = [pc EXCEPT ![t] = newpc]
    /\ UNCHANGED <<tri_locked, tri_waiters>>

\* `async with lock` exit: release; the first waiter, if any, is woken and
\* takes the lock.
ReleaseLock(t, newpc) ==
    IF tri_waiters = <<>>
    THEN /\ tri_locked' = FALSE
         /\ tri_waiters' = tri_waiters
         /\ pc' = [pc EXCEPT ![t] = newpc]
    ELSE /\ tri_locked' = TRUE
         /\ tri_waiters' = Tail(tri_waiters)
         /\ pc' = [pc EXCEPT ![t] = newpc, ![Head(tri_waiters)] = "tri_locked"]

\* ------------------------------------------------------------------------
\* TradeExecutor: balance gate of the triangular shape
\* ------------------------------------------------------------------------
\* a balance gate that looks at the CEX balance only
check_tri_balances_cex_only(has_wallet, wallet_bal, cex_bal, need_wallet, need_cex) ==
    ~(cex_bal < need_cex)

\* _check_tri_balances_apt_to_ami / _check_tri_balances_ami_to_apt:
\* wallet_bal is the result of get_token_balance (None on error), cex_bal is
\* cex_bals.get(coin, 0.0).
check_tri_balances(has_wallet, wallet_bal, cex_bal, need_wallet, need_cex) ==
    LET wallet_ok == ~(has_wallet /\ panora_executor
                       /\ wallet_bal # None /\ wallet_bal < need_wallet)
        cex_ok    == ~(cex_bal < need_cex)
    IN wallet_ok /\ cex_ok

\* ------------------------------------------------------------------------
\* PriceCollector (core/price_collector.py)
\* ------------------------------------------------------------------------
Symbols == {"AMIUSDT", "APTUSDT"}
Exchanges == {"bybit", "mexc"}
StoreBids == {0, 1, 2}                      \* bid handed to update()
StoreAsks == {0 - 1, 2}                     \* ask handed to update()
StoreQtys == {<<5, 7>>}                     \* <<bid_qty, ask_qty>>

\* a Python dict with no key
EmptyDict == [k \in {} |-> 0]

\* d[k] = v
DictSet(d, k, v) == [x \in DOMAIN d \cup {k} |-> IF x = k THEN v ELSE d[x]]

\* PriceData.__init__: the timestamp is taken when the object is built
PriceData(bid, ask, bid_qty, ask_qty) ==
    [bid |-> bid, ask |-> ask, bid_qty |-> bid_qty, ask_qty |-> ask_qty,
     timestamp |-> now]

\* the None returned by get_exchange / dict.get for a missing key
NoPriceData ==
    [bid |-> None, ask |-> None, bid_qty |-> None, ask_qty |-> None,
     timestamp |-> None]

NoUpdate == [exchange |-> "none", symbol |-> "none", bid |-> 0, ask |-> 0,
             bid_qty |-> 0, ask_qty |-> 0]

\* a guard that rejects a quote only when both sides are non-positive
invalid_quote_both(bid, ask) == bid <= 0 /\ ask <= 0

\* PriceCollector.update: `if bid <= 0 or ask <= 0: return`
invalid_quote(bid, ask) == bid <= 0 \/ ask <= 0

\* dict.get(key, default)
DictGet(d, k, default) == IF k \in DOMAIN d THEN d[k] ELSE default

\* PriceCollector.get on the store contents _prices
get_of(_prices, symbol) == DictGet(_prices, symbol, EmptyDict)

\* PriceCollector.get_exchange on the store contents _prices
get_exchange_of(_prices, symbol, exchange) ==
    DictGet(get_of(_prices, symbol), exchange, NoPriceData)

\* PriceCollector.get
get(symbol) == get_of(prices, symbol)

\* PriceCollector.get_exchange
get_exchange(symbol, exchange) == get_exchange_of(prices, symbol, exchange)

\* the store contents PriceCollector.update leaves, given the contents
\* _prices it finds
update_of(_prices, exchange, symbol, bid, ask, bid_qty, ask_qty) ==
    IF invalid_quote(bid, ask) THEN _prices
    ELSE DictSet(_prices, symbol,
                 DictSet(get_of(_prices, symbol), exchange,
                         PriceData(bid, ask, bid_qty, ask_qty)))

\* PriceCollector.update
update(exchange, symbol, bid, ask, bid_qty, ask_qty) ==
    /\ nupdates < MaxUpdates
    /\ nupdates' = nupdates + 1
    /\ last_update' = [exchange |-> exchange, symbol |-> symbol,
                       bid |-> bid, ask |-> ask,
                       bid_qty |-> bid_qty, ask_qty |-> ask_qty]
    /\ IF invalid_quote(bid, ask)
       THEN prices' = prices
       ELSE prices' = DictSet(prices, symbol,
                         DictSet(get(symbol), exchange,
                                 PriceData(bid, ask, bid_qty, ask_qty)))
    /\ UNCHANGED <<now, nonStoreVars>>

\* ------------------------------------------------------------------------
\* ArbitrageEngine (core/arbitrage_engine.py): detection calls and their
\* verification cooldown.  Whether an estimated or a verified profit exceeds
\* min_profit_threshold is an input of the step that computes it.
\* ------------------------------------------------------------------------
VERIFY_COOLDOWN_S == 3

\* fee rates are counted in 1/FEE_SCALE
FEE_SCALE == 1000

\* settings.bybit_fee, mexc_fee, panora_fee (0.001) and
\* min_profit_threshold (1.0 USDT)
DefaultCfg == [bybit_fee |-> 1, mexc_fee |-> 1, panora_fee |-> 1,
               min_profit |-> 1]

\* no check made on priced quotes
NoScan == [shape |-> "none", pc |-> "idle", log |-> <<>>, tasks |-> <<>>]

\* BybitWS before connect() is called
NoFeed == [pc |-> "idle", reconnect_delay |-> 0, error |-> "none"]

CexNames == {"Bybit", "MEXC"}
EngineShapes == {"DEX_CEX", "TRI"}
VerifyOutcomes == {"none", "profit", "canceled"}
SkipQuoteOutcomes == {"quote", "none", "type_error"}

NoCheck == [shape |-> "none", cex_name |-> "none", exit |-> "none"]
NoDispatch == [shape |-> "none", direction |-> "none", cex_name |-> "none"]

\* _vkey of a direction: DEX_BUY_<cex>, DEX_SELL_<cex>, TRI_DIR1_<cex>,
\* TRI_DIR2_<cex>
vkey(shape, dir, cex_name) ==
    <<IF shape = "DEX_CEX" THEN (IF dir = 1 THEN "DEX_BUY" ELSE "DEX_SELL")
      ELSE (IF dir = 1 THEN "TRI_DIR1" ELSE "TRI_DIR2"),
      cex_name>>

\* a cooldown test that never holds a verification back
in_cooldown_never(_vkey) == FALSE

\* time.time() - self._last_verify.get(_vkey, 0) < self._VERIFY_COOLDOWN_S
in_cooldown(_vkey) == now - DictGet(last_verify, _vkey, 0) < VERIFY_COOLDOWN_S

\* direction handed to the executor by a dispatch
dispatch_direction(shape, dir) ==
    IF shape = "DEX_CEX"
    THEN (IF dir = 1 THEN "BUY_DEX_SELL_CEX" ELSE "BUY_CEX_SELL_DEX")
    ELSE (IF dir = 1 THEN "APT_TO_AMI" ELSE "AMI_TO_APT")

\* the client a direction's quote is asked from is set
client_set(shape) == IF shape = "DEX_CEX" THEN panora_client
                     ELSE panora_apt_client

\* One direction of a detection call, from its profit test to its first
\* await or return.  profitable: the estimated profit exceeds min_profit.
\* When direction 1 is not profitable the code falls through to direction 2.
EvalDirection(shape, cex_name, dir, profitable) ==
    IF ~profitable
    THEN /\ echeck' = [shape |-> shape, cex_name |-> cex_name,
                       exit |-> "no_opportunity"]
         /\ epc' = "idle"
         /\ UNCHANGED <<last_verify, verify_log>>
    ELSE IF skip_panora_verify
    THEN /\ echeck' = [shape |-> shape, cex_name |-> cex_name, exit |-> "none"]
         /\ epc' = IF dir = 1 THEN "d1_skip" ELSE "d2_skip"
         /\ UNCHANGED <<last_verify, verify_log>>
    ELSE IF in_cooldown(vkey(shape, dir, cex_name))
    THEN /\ echeck' = [shape |-> shape, cex_name |-> cex_name,
                       exit |-> "cooldown"]
         /\ epc' = "idle"
         /\ UNCHANGED <<last_verify, verify_log>>
    ELSE /\ Len(verify_log) < MaxVerify
         /\ last_verify' = DictSet(last_verify, vkey(shape, dir, cex_name), now)
         /\ verify_log' = Append(verify_log,
                [key |-> vkey(shape, dir, cex_name), at |-> now])
         /\ echeck' = [shape |-> shape, cex_name |-> cex_name, exit |-> "none"]
         /\ epc' = IF dir = 1 THEN "d1_verify" ELSE "d2_verify"

\* a detection call that goes on to direction 2 when direction 1 is
\* profitable but held back by skip-verify mode or by its cooldown
EvalDirections_fall_through(shape, cex_name, profitable1, profitable2) ==
    IF /\ profitable1 /\ ~skip_panora_verify
       /\ ~in_cooldown(vkey(shape, 1, cex_name))
    THEN EvalDirection(shape, cex_name, 1, TRUE)
    ELSE EvalDirection(shape, cex_name, 2, profitable2)

\* Both directions of a detection call up to the first await or return.
EvalDirections(shape, cex_name, profitable1, profitable2) ==
    IF profitable1 THEN EvalDirection(shape, cex_name, 1, TRUE)
    ELSE EvalDirection(shape, cex_name, 2, profitable2)

\* asyncio.create_task(self.trade_executor.execute_...(...))
Dispatch(shape, dir, cex_name) ==
    IF trade_executor
    THEN last_dispatch' = [shape |-> shape,
                           direction |-> dispatch_direction(shape, dir),
                           cex_name |-> cex_name]
    ELSE last_dispatch' = last_dispatch

\* a staleness test that looks at the first quote only
either_stale_first(stale_a, stale_b) == stale_a

\* `a.is_stale() or b.is_stale()`
either_stale(stale_a, stale_b) == stale_a \/ stale_b

\* a run loop that starts each detection call without awaiting the one
\* before it
detection_awaited_never == TRUE

\* `await self._check_...(...)` in run(): the loop goes on to its next
\* statement once the detection call it awaits has returned
detection_awaited == epc = "idle"

\* ArbitrageEngine._check_dex_cex, up to its first await or return, given
\* which of its two quotes are stale and which directions are profitable
check_dex_cex_with(cex_name, panora_stale, cex_stale, profitable1, profitable2) ==
    /\ detection_awaited
    /\ IF either_stale(panora_stale, cex_stale)
       THEN /\ echeck' = [shape |-> "DEX_CEX", cex_name |-> cex_name,
                          exit |-> "stale"]
            /\ UNCHANGED <<epc, last_verify, verify_log>>
       ELSE EvalDirections("DEX_CEX", cex_name, profitable1, profitable2)
    /\ UNCHANGED <<skip_panora_verify, panora_client, panora_apt_client,
                   trade_executor, last_dispatch, now, nonEngineVars>>

\* <<panora_stale, cex_stale, profitable1, profitable2>> of the calls made:
\* a stale quote comes with profitable estimates, the case in which the
\* staleness test alone keeps the check silent
DexCexInputs ==
    {in \in BOOLEAN \X BOOLEAN \X BOOLEAN \X BOOLEAN :
        (in[1] \/ in[2]) => (in[3] /\ in[4])}

\* ArbitrageEngine._check_dex_cex, up to its first await or return
check_dex_cex(cex_name) ==
    /\ \E in \in DexCexInputs :
          check_dex_cex_with(cex_name, in[1], in[2], in[3], in[4])
    /\ UNCHANGED scan

\* ArbitrageEngine._check_triangular_apt_ami, up to its first await or
\* return.  cex_stale: `cex_ami.is_stale() or cex_apt.is_stale()`;
\* pan_stale1, pan_stale2: the Panora APT->AMI quote of direction 1 and the
\* AMI->APT quote of direction 2 are missing or stale, which skips that
\* direction only.
check_triangular_apt_ami_with(cex_name, cex_ami_stale, cex_apt_stale, pan_stale1, pan_stale2, profitable1, profitable2) ==
    /\ detection_awaited
    /\ IF either_stale(cex_ami_stale, cex_apt_stale)
       THEN /\ echeck' = [shape |-> "TRI", cex_name |-> cex_name,
                          exit |-> "stale"]
            /\ UNCHANGED <<epc, last_verify, verify_log>>
       ELSE IF ~panora_apt_client
       THEN /\ echeck' = [shape |-> "TRI", cex_name |-> cex_name,
                          exit |-> "no_client"]
            /\ UNCHANGED <<epc, last_verify, verify_log>>
       ELSE EvalDirections("TRI", cex_name, ~pan_stale1 /\ profitable1,
                           ~pan_stale2 /\ profitable2)
    /\ UNCHANGED <<skip_panora_verify, panora_client, panora_apt_client,
                   trade_executor, last_dispatch, now, nonEngineVars>>

\* <<cex_ami_stale, cex_apt_stale, pan_stale1, pan_stale2, profitable1,
\* profitable2>> of the calls made: a stale CEX quote comes with fresh
\* Panora quotes and profitable estimates, a stale Panora quote with a
\* profitable estimate of its direction
TriInputs ==
    {in \in BOOLEAN \X BOOLEAN \X BOOLEAN \X BOOLEAN \X BOOLEAN \X BOOLEAN :
        /\ (in[1] \/ in[2]) => (~in[3] /\ ~in[4] /\ in[5] /\ in[6])
        /\ in[3] => in[5]
        /\ in[4] => in[6]}

\* ArbitrageEngine._check_triangular_apt_ami, up to its first await or return
check_triangular_apt_ami(cex_name) ==
    /\ \E in \in TriInputs :
          check_triangular_apt_ami_with(cex_name, in[1], in[2], in[3], in[4],
                                        in[5], in[6])
    /\ UNCHANGED scan

\* `verified = await self._verify_panora_...(...)` resumes.  Without a client
\* the verify helper returns None.  After direction 1 the call goes on to
\* direction 2, after direction 2 it returns.
verify_return_with(outcome, profitable2) ==
    /\ epc \in {"d1_verify", "d2_verify"}
    /\ LET dir == IF epc = "d1_verify" THEN 1 ELSE 2 IN
       /\ client_set(echeck.shape) \/ outcome = "none"
       /\ IF outcome = "profit"
          THEN Dispatch(echeck.shape, dir, echeck.cex_name)
          ELSE last_dispatch' = last_dispatch
       /\ IF dir = 1
          THEN EvalDirection(echeck.shape, echeck.cex_name, 2, profitable2)
          ELSE /\ echeck' = [echeck EXCEPT !.exit = "verified"]
               /\ epc' = "idle"
               /\ UNCHANGED <<last_verify, verify_log>>
    /\ UNCHANGED <<skip_panora_verify, panora_client, panora_apt_client,
                   trade_executor, now, nonEngineVars>>

\* the same, whatever the quote and the recomputed profit are
verify_return ==
    /\ \E outcome \in VerifyOutcomes, profitable2 \in BOOLEAN :
          verify_return_with(outcome, profitable2)
    /\ UNCHANGED scan

\* Skip-verify mode: `prefetched = await client.get_swap_quote(...,
\* slippage_pct=...)`, the dispatch and `return`.  A client that is not set,
\* or a get_swap_quote that takes no slippage_pct keyword
\* (PanoraClient.get_swap_quote as it stands), raises at the call: nothing
\* in run() catches it and the engine coroutine ends.
skip_quote_return ==
    /\ epc \in {"d1_skip", "d2_skip"}
    /\ \E outcome \in SkipQuoteOutcomes :
         LET dir == IF epc = "d1_skip" THEN 1 ELSE 2 IN
         IF outcome = "type_error" \/ ~client_set(echeck.shape)
         THEN /\ epc' = "crashed"
              /\ echeck' = [echeck EXCEPT !.exit = "raised"]
              /\ last_dispatch' = last_dispatch
         ELSE /\ epc' = "idle"
              /\ echeck' = [echeck EXCEPT !.exit = "skip_verify"]
              /\ Dispatch(echeck.shape, dir, echeck.cex_name)
    /\ UNCHANGED <<skip_panora_verify, panora_client, panora_apt_client,
                   trade_executor, last_verify, verify_log, now, nonEngineVars,
                   scan>>

\* ------------------------------------------------------------------------
\* ArbitrageEngine on priced quotes: _calc_profit and _check_cex_cex.
\* Prices are in USDT, quantities in coins, profits in 1/FEE_SCALE USDT.
\* ------------------------------------------------------------------------
\* the engine of the unit tests: zero fees, zero threshold
ZeroCfg == [bybit_fee |-> 0, mexc_fee |-> 0, panora_fee |-> 0,
            min_profit |-> 0]

\* default max_age of PriceData.is_stale
STALE_MAX_AGE == 10

\* PriceData.is_stale(): self.age > max_age
is_stale(quote) == now - quote.timestamp > STALE_MAX_AGE

\* a PriceData object built `age` seconds ago
Book(bid, ask, bid_qty, ask_qty, age) ==
    [bid |-> bid, ask |-> ask, bid_qty |-> bid_qty, ask_qty |-> ask_qty,
     timestamp |-> now - age]

\* the CEX quotes a check is handed: fresh or stale, with or without size
CexBooks ==
    {Book(bid, ask, q, q, age) :
        bid \in {99, 102}, ask \in {100, 101}, q \in {0, 2, 3},
        age \in {0, STALE_MAX_AGE + 1}}

\* ArbitrageEngine._calc_profit, the net profit multiplied by FEE_SCALE
calc_profit(buy_price, sell_price, qty, buy_fee_rate, sell_fee_rate) ==
    LET buy_vol == qty * buy_price
        sell_vol == qty * sell_price
    IN [buy_vol |-> buy_vol, sell_vol |-> sell_vol,
        profit |-> (sell_vol - buy_vol) * FEE_SCALE
                   - buy_vol * buy_fee_rate - sell_vol * sell_fee_rate]

\* a threshold test that lets a profit equal to the threshold through
exceeds_min_profit_or_equal(profit) == profit >= engine_cfg.min_profit * FEE_SCALE

\* `profit > self.min_profit`
exceeds_min_profit(profit) == profit > engine_cfg.min_profit * FEE_SCALE

\* a tradable quantity that takes the larger side of the book
tradable_qty_max(ask_qty, bid_qty) == Max(ask_qty, bid_qty)

\* `qty = min(a.ask_qty, b.bid_qty)`
tradable_qty(ask_qty, bid_qty) == Min(ask_qty, bid_qty)

\* _log_opportunity and the arguments of execute_cex_cex
Opportunity(buy_exchange, sell_exchange, buy_price, sell_price, qty, profit) ==
    [buy_exchange |-> buy_exchange, sell_exchange |-> sell_exchange,
     buy_price |-> buy_price, sell_price |-> sell_price, qty |-> qty,
     profit |-> profit]

\* one direction of _check_cex_cex: the opportunities it logs
CexCexDirection(buy_exchange, sell_exchange, buy, sell, buy_fee, sell_fee) ==
    LET qty == tradable_qty(buy.ask_qty, sell.bid_qty)
        p == calc_profit(buy.ask, sell.bid, qty, buy_fee, sell_fee)
    IN IF qty > 0 /\ exceeds_min_profit(p.profit)
       THEN <<Opportunity(buy_exchange, sell_exchange, buy.ask, sell.bid,
                          qty, p.profit)>>
       ELSE <<>>

\* ArbitrageEngine._check_cex_cex(bybit, mexc)
check_cex_cex(bybit, mexc) ==
    /\ LET found ==
             IF is_stale(bybit) \/ is_stale(mexc) THEN <<>>
             ELSE CexCexDirection("Bybit", "MEXC", bybit, mexc,
                                  engine_cfg.bybit_fee, engine_cfg.mexc_fee)
                  \o CexCexDirection("MEXC", "Bybit", mexc, bybit,
                                     engine_cfg.mexc_fee, engine_cfg.bybit_fee)
       IN scan' = [shape |-> "CEX_CEX", pc |-> "idle",
                   bybit |-> bybit, mexc |-> mexc, log |-> found,
                   tasks |-> IF trade_executor THEN found ELSE <<>>]
    /\ UNCHANGED <<engineVars, now, nonEngineVars>>

\* ------------------------------------------------------------------------
\* ArbitrageEngine._check_dex_cex on priced quotes: the estimates that
\* decide its path and the profit recomputed from the verified quote
\* ------------------------------------------------------------------------
\* the Panora AMI/USDT quote of the store: cheap, dear, or cheap to buy
\* and dear to sell, each for 72 AMI, fresh or stale
PanoraBooks ==
    {Book(b[1], b[2], 72, 72, age) :
        b \in {<<60, 70>>, <<95, 99>>, <<95, 70>>},
        age \in {0, STALE_MAX_AGE + 1}}

\* the CEX AMIUSDT quote of the store
DexCexBooks == {Book(80, 81, 100, 100, 0)}

\* toTokenAmount of the verification quote: no quote or no amount, zero,
\* or the amount at a price of 70, 80 or 90 (buying AMI with 72 * 70 USDT)
\* or of 95, 81 or 60 (selling 72 AMI); the verified price is a whole
\* number for each of them
BuyToAmounts == {None, 0, 72, 63, 56}
SellToAmounts == {None, 0, 6840, 5832, 4320}

\* self.bybit_fee if cex_name == "Bybit" else self.mexc_fee
cex_fee_of(cex_name) ==
    IF cex_name = "Bybit" THEN engine_cfg.bybit_fee ELSE engine_cfg.mexc_fee

\* the estimate of a direction: quantity and _calc_profit on store prices
Estimate(dir, panora, cex, cex_name) ==
    IF dir = 1
    THEN LET qty == tradable_qty(panora.ask_qty, cex.bid_qty)
         IN [qty |-> qty,
             profit |-> calc_profit(panora.ask, cex.bid, qty,
                                    engine_cfg.panora_fee,
                                    cex_fee_of(cex_name)).profit]
    ELSE LET qty == tradable_qty(cex.ask_qty, panora.bid_qty)
         IN [qty |-> qty,
             profit |-> calc_profit(cex.ask, panora.bid, qty,
                                    cex_fee_of(cex_name),
                                    engine_cfg.panora_fee).profit]

\* `if qty > 0:` ... `if profit > self.min_profit:`
EstimateProfitable(dir, panora, cex, cex_name) ==
    /\ Estimate(dir, panora, cex, cex_name).qty > 0
    /\ exceeds_min_profit(Estimate(dir, panora, cex, cex_name).profit)

\* _verify_panora_buy / _verify_panora_sell on a quote whose toTokenAmount
\* is to_amount, and the profit recomputed from it: direction 1 buys
\* to_amount AMI for qty * panora.ask USDT, direction 2 sells qty AMI for
\* to_amount USDT.
Verified(dir, panora, cex, cex_name, to_amount) ==
    LET qty == Estimate(dir, panora, cex, cex_name).qty IN
    IF to_amount = None \/ to_amount <= 0
    THEN [ok |-> FALSE, buy_price |-> 0, sell_price |-> 0, qty |-> 0,
          profit |-> 0]
    ELSE IF dir = 1
    THEN LET v_price == (qty * panora.ask) \div to_amount
         IN [ok |-> TRUE, buy_price |-> v_price, sell_price |-> cex.bid,
             qty |-> to_amount,
             profit |-> calc_profit(v_price, cex.bid, to_amount,
                                    engine_cfg.panora_fee,
                                    cex_fee_of(cex_name)).profit]
    ELSE LET v_price == to_amount \div qty
         IN [ok |-> TRUE, buy_price |-> cex.ask, sell_price |-> v_price,
             qty |-> qty,
             profit |-> calc_profit(cex.ask, v_price, qty,
                                    cex_fee_of(cex_name),
                                    engine_cfg.panora_fee).profit]

\* _check_dex_cex(panora, cex, cex_name) up to its first await or return
check_dex_cex_priced(panora, cex, cex_name) ==
    /\ check_dex_cex_with(cex_name, is_stale(panora), is_stale(cex),
                          EstimateProfitable(1, panora, cex, cex_name),
                          EstimateProfitable(2, panora, cex, cex_name))
    /\ scan' = [shape |-> "DEX_CEX", pc |-> epc', cex_name |-> cex_name,
                panora |-> panora, cex |-> cex, log |-> <<>>, tasks |-> <<>>]

\* `verified = await self._verify_panora_...` resumes with a quote whose
\* toTokenAmount is to_amount: the profit is recomputed, the execution is
\* dispatched or the cancellation logged, and the call goes on
verify_return_priced(to_amount) ==
    /\ scan.shape = "DEX_CEX" /\ scan.pc \in {"d1_verify", "d2_verify"}
    /\ LET dir == IF epc = "d1_verify" THEN 1 ELSE 2
           v == Verified(dir, scan.panora, scan.cex, scan.cex_name, to_amount)
           outcome == IF ~v.ok THEN "none"
                      ELSE IF exceeds_min_profit(v.profit) THEN "profit"
                      ELSE "canceled"
       IN /\ verify_return_with(outcome,
                 EstimateProfitable(2, scan.panora, scan.cex, scan.cex_name))
          /\ scan' = [scan EXCEPT
                 !.pc = epc',
                 !.log = Append(@, [dir |-> dir, to_amount |-> to_amount,
                                    outcome |-> outcome]),
                 !.tasks = IF outcome = "profit" /\ trade_executor
                           THEN Append(@, [direction |->
                                              dispatch_direction("DEX_CEX", dir),
                                           buy_price |-> v.buy_price,
                                           sell_price |-> v.sell_price,
                                           qty |-> v.qty])
                           ELSE @]

\* ------------------------------------------------------------------------
\* ArbitrageEngine._check_triangular_apt_ami on priced quotes.  CEX prices
\* are counted in 1/1000 USDT, APT in 1/1000, AMI in whole tokens, the
\* APT->AMI rate in AMI per APT and the AMI->APT rate in 1/1000000 APT per
\* AMI; profits are multiplied by FEE_SCALE as in calc_profit.
\* ------------------------------------------------------------------------
\* self.slippage_tolerance_pct = settings.slippage_tolerance_pct / 100, in
\* 1/FEE_SCALE
slippage_tolerance_pct == 1

\* the engine configuration with min_profit_threshold of 1 USDT
TriCfg == [bybit_fee |-> 1, mexc_fee |-> 1, panora_fee |-> 1,
           min_profit |-> 1000]

\* the CEX quotes: APTUSDT at 4.990 / 5.000, AMIUSDT at 0.006 / 0.007
TriAptBooks == {Book(4990, 5000, 100, 100, age) : age \in {0, STALE_MAX_AGE + 1}}
TriAmiBooks == {Book(6, 7, 100, 100, 0)}
\* the Panora quotes of the store: 1000 or 800 AMI per APT, 0.0015 or
\* 0.0012 APT per AMI
TriPanBooks1 == {Book(1000, 1000, 10000, 10000, 0), Book(800, 800, 10000, 10000, 0)}
TriPanBooks2 == {Book(1500, 1500, 10000, 10000, 0), Book(1200, 1200, 10000, 10000, 0)}

\* toTokenAmount of the verification quote: none, zero, or the amount at
\* the store rate, at 0.1 %, 0.2 %, 10 % and 30 % below it and at 5 % above
TriToAmounts1 == {None, 0, 2000, 1998, 1996, 1800, 1400, 2100}
TriToAmounts2 == {None, 0, 2142, 2139, 2137, 1928, 1500, 2249}

\* `if pan and not pan.is_stale()` is false
pan_unusable(pan) == pan.bid = None \/ is_stale(pan)

\* qty_apt_est = notional / cex_apt.ask, qty_ami_est = notional / cex_ami.ask
tri_qty_est(dir, cex_ami, cex_apt) ==
    IF dir = 1 THEN (trade_amount_usdt * 1000 * 1000) \div cex_apt.ask
    ELSE (trade_amount_usdt * 1000) \div cex_ami.ask

\* the profit of a direction at a DEX rate: the output of the swap, its
\* value at the CEX bid, the three fees
tri_profit(dir, rate, cex_ami, cex_apt, cex_name) ==
    LET notional == trade_amount_usdt * 1000
        qty == tri_qty_est(dir, cex_ami, cex_apt)
        out == (qty * rate) \div 1000
        usdt_out == IF dir = 1 THEN out * cex_ami.bid
                    ELSE (out * cex_apt.bid) \div 1000
    IN (usdt_out - notional) * FEE_SCALE
       - notional * cex_fee_of(cex_name)
       - notional * engine_cfg.panora_fee
       - usdt_out * cex_fee_of(cex_name)

\* `if profit_est > self.min_profit` on the store rate of the direction
TriEstimateProfitable(dir, pan, cex_ami, cex_apt, cex_name) ==
    /\ ~pan_unusable(pan)
    /\ exceeds_min_profit(tri_profit(dir, pan.ask, cex_ami, cex_apt, cex_name))

\* v_rate of _verify_panora_apt_to_ami / _verify_panora_ami_to_apt:
\* the output amount divided by the input quantity
tri_v_rate(dir, to_amount, cex_ami, cex_apt) ==
    (to_amount * 1000) \div tri_qty_est(dir, cex_ami, cex_apt)

\* `slippage < -self.slippage_tolerance_pct * 100` with
\* slippage = (v_rate - store_rate) / store_rate * 100
slippage_exceeds_tolerance(v_rate, store_rate) ==
    (v_rate - store_rate) * FEE_SCALE < 0 - slippage_tolerance_pct * store_rate

\* adjusted_rate: v_rate, or store_rate * (1 - tolerance) when the slippage
\* exceeds the tolerance
adjusted_rate(v_rate, store_rate) ==
    IF slippage_exceeds_tolerance(v_rate, store_rate)
    THEN (store_rate * (FEE_SCALE - slippage_tolerance_pct)) \div FEE_SCALE
    ELSE v_rate

\* _check_triangular_apt_ami(cex_ami, cex_apt, cex_name) up to its first
\* await or return, the store holding pan1 under APT->AMI and pan2 under
\* AMI->APT
check_triangular_priced(cex_ami, cex_apt, pan1, pan2, cex_name) ==
    /\ check_triangular_apt_ami_with(cex_name, is_stale(cex_ami),
          is_stale(cex_apt), pan_unusable(pan1), pan_unusable(pan2),
          TriEstimateProfitable(1, pan1, cex_ami, cex_apt, cex_name),
          TriEstimateProfitable(2, pan2, cex_ami, cex_apt, cex_name))
    /\ scan' = [shape |-> "TRI", pc |-> epc', cex_name |-> cex_name,
                cex_ami |-> cex_ami, cex_apt |-> cex_apt,
                pan1 |-> pan1, pan2 |-> pan2, log |-> <<>>, tasks |-> <<>>]

\* `result = await self._verify_panora_...(qty)` resumes with a quote whose
\* toTokenAmount is to_amount: v_rate, the adjusted rate, v_profit, the
\* dispatch or the cancellation, and the call goes on
tri_verify_return_priced(to_amount) ==
    /\ scan.shape = "TRI" /\ scan.pc \in {"d1_verify", "d2_verify"}
    /\ LET dir == IF epc = "d1_verify" THEN 1 ELSE 2
           pan == IF dir = 1 THEN scan.pan1 ELSE scan.pan2
           ok == ~(to_amount = None \/ to_amount <= 0)
           v_rate == IF ok THEN tri_v_rate(dir, to_amount, scan.cex_ami,
                                           scan.cex_apt)
                     ELSE None
           rate == IF ok THEN adjusted_rate(v_rate, pan.ask) ELSE None
           v_profit == IF ok THEN tri_profit(dir, rate, scan.cex_ami,
                                             scan.cex_apt, scan.cex_name)
                       ELSE 0
           outcome == IF ~ok THEN "none"
                      ELSE IF exceeds_min_profit(v_profit) THEN "profit"
                      ELSE "canceled"
       IN /\ verify_return_with(outcome,
                 TriEstimateProfitable(2, scan.pan2, scan.cex_ami,
                                       scan.cex_apt, scan.cex_name))
          /\ scan' = [scan EXCEPT
                 !.pc = epc',
                 !.log = Append(@, [dir |-> dir, store_rate |-> pan.ask,
                                    v_rate |-> v_rate,
                                    adjusted_rate |-> rate,
                                    v_profit |-> v_profit,
                                    outcome |-> outcome]),
                 !.tasks = IF outcome = "profit" /\ trade_executor
                           THEN Append(@, [direction |->
                                              dispatch_direction("TRI", dir),
                                           v_rate |-> v_rate])
                           ELSE @]

\* ------------------------------------------------------------------------
\* PanoraClient (exchanges/panora.py): quote cache, unit-price cache and
\* get_swap_quote.  Amounts are counted in 1/QS of a token.
\* ------------------------------------------------------------------------
QUOTE_CACHE_TTL == panora_poll_interval     \* _QUOTE_CACHE_TTL
max_retries == 3                            \* PanoraClient.__init__ default

Callers == {"engine", "executor"}   \* poller / engine reads, execute_swap
\* <<direction, amount>> of the quotes the poller and the engine ask for,
\* and of the swaps the submitter is given
QuoteRequests == {<<"APT_AMI", 1000000>>, <<"APT_AMI", 1000001>>,
                  <<"APT_AMI", 2000000>>, <<"AMI_APT", 1000000>>}
SwapRequests == {<<"APT_AMI", 1000000>>, <<"AMI_APT", 1000000>>}
\* resp.status, or the exception the request ends with
HttpStatuses == {"200", "429", "503", "500", "timeout", "client_error"}
\* <<toTokenAmount, txdata>> of a 200 response: a well-formed quote, a
\* body with neither a toTokenAmount nor a transaction payload, or a body
\* that resp.json() rejects.  toTokenAmount is counted in 1/100 of the
\* to-token.
ResponseBodies == {<<300, "ok">>, <<None, "none">>, <<None, "invalid">>}

RECURSIVE NumDigits(_)
NumDigits(n) == IF n < 10 THEN 1 ELSE 1 + NumDigits(n \div 10)

RECURSIVE Pow10(_)
Pow10(k) == IF k = 0 THEN 1 ELSE 10 * Pow10(k - 1)

\* float(f"{amount:.6g}"): amount rounded to six significant figures
round6g(amount) ==
    IF NumDigits(amount) <= 6 THEN amount
    ELSE LET unit == Pow10(NumDigits(amount) - 6)
         IN ((amount + unit \div 2) \div unit) * unit

\* PanoraClient._cache_key
cache_key(from_to, amount) == <<from_to, round6g(amount)>>

NoEntry == [at |-> None]

\* a freshness test that still accepts an entry whose age equals the TTL
is_fresh_upto_ttl(fetched_at) == now - fetched_at <= QUOTE_CACHE_TTL

\* (time.time() - entry[1]) < _QUOTE_CACHE_TTL
is_fresh(fetched_at) == now - fetched_at < QUOTE_CACHE_TTL

\* PanoraClient._get_unit_price: the entry if it is fresh, else None
get_unit_price(from_to) ==
    LET entry == DictGet(unit_price_cache, from_to, NoEntry)
    IN IF entry # NoEntry /\ is_fresh(entry.at) THEN entry ELSE NoEntry

\* a lookup that never finds the exact-quote entry
get_cached_quote_miss(from_to, amount) == NoEntry

\* PanoraClient._get_cached_quote
get_cached_quote(from_to, amount) ==
    LET entry == DictGet(quote_cache, cache_key(from_to, amount), NoEntry)
    IN IF entry # NoEntry /\ now - entry.at < QUOTE_CACHE_TTL THEN entry
       ELSE NoEntry

\* a store that evicts nothing
store_cached_quote_keep_all(from_to, amount, quote) ==
    DictSet(quote_cache, cache_key(from_to, amount),
            [quote |-> quote, at |-> now])

\* PanoraClient._store_cached_quote: store, then evict what is older than
\* 2 * TTL
store_cached_quote(from_to, amount, quote) ==
    LET stored == DictSet(quote_cache, cache_key(from_to, amount),
                          [quote |-> quote, at |-> now])
        kept == {k \in DOMAIN stored :
                    stored[k].at > now - QUOTE_CACHE_TTL * 2}
    IN [k \in kept |-> stored[k]]

\* parse_to_token_amount followed by PanoraClient._store_unit_price: the
\* price per unit is kept as the pair it is the quotient of
store_unit_price(from_to, from_amount, to_amount) ==
    IF to_amount # None /\ from_amount > 0 /\ to_amount > 0
    THEN DictSet(unit_price_cache, from_to,
                 [to_amount |-> to_amount, from_amount |-> from_amount,
                  at |-> now])
    ELSE unit_price_cache

\* a synthetic quote that hands back the amount of the response the entry
\* was taken from, whatever amount is asked for
synthetic_quote_unscaled(from_to, amount, entry) ==
    MkQuote("synthetic", from_to, amount, entry.to_amount, "none")

\* the synthetic quote built from a unit-price entry: price * amount
synthetic_quote(from_to, amount, entry) ==
    MkQuote("synthetic", from_to, amount,
            (entry.to_amount * amount) \div entry.from_amount, "none")

\* age of a cache entry, None when there is no entry
age_of(entry) == IF entry = NoEntry THEN None ELSE now - entry.at

\* A get_swap_quote call: pc "http" while a request is awaited, "backoff"
\* while it sleeps before the next attempt; src is where its quote comes
\* from; exact_age and unit_age are the ages, when the call is made, of the
\* exact-quote entry of its key and of the unit-price entry of its direction;
\* sent_at is the time session.post was called for the request awaited.
NoQCall == [pc |-> "idle", dir |-> "none", amount |-> 0,
            force_fresh |-> FALSE, attempt |-> 0,
            src |-> "none", ret |-> NoQuote,
            exact_age |-> None, unit_age |-> None, sent_at |-> None,
            sleeps |-> 0, wait_time |-> None]

\* get_swap_quote from its entry to its first await or return: served from
\* the exact cache, synthesized from the unit-price cache, or the first
\* HTTP request sent.
GetSwapQuote(c, from_to, amount, force_fresh) ==
    LET cached == get_cached_quote(from_to, amount)
        unit == get_unit_price(from_to)
        q == [NoQCall EXCEPT
                 !.dir = from_to, !.amount = amount,
                 !.force_fresh = force_fresh,
                 !.exact_age = age_of(DictGet(quote_cache,
                                   cache_key(from_to, amount), NoEntry)),
                 !.unit_age = age_of(DictGet(unit_price_cache, from_to,
                                             NoEntry))]
    IN IF ~force_fresh /\ cached # NoEntry
       THEN /\ cache_hits' = cache_hits + 1
            /\ qcall' = [qcall EXCEPT ![c] =
                   [q EXCEPT !.pc = "done", !.src = "exact_cache",
                             !.ret = cached.quote]]
            /\ UNCHANGED total_requests
       ELSE IF ~force_fresh /\ unit # NoEntry
       THEN /\ cache_hits' = cache_hits + 1
            /\ qcall' = [qcall EXCEPT ![c] =
                   [q EXCEPT !.pc = "done", !.src = "unit_price_cache",
                             !.ret = synthetic_quote(from_to, amount,
                                                    unit)]]
            /\ UNCHANGED total_requests
       ELSE /\ total_requests' = total_requests + 1
            /\ qcall' = [qcall EXCEPT ![c] =
                   [q EXCEPT !.pc = "http", !.src = "http",
                             !.sent_at = now]]
            /\ UNCHANGED cache_hits

\* A poller or engine read: get_swap_quote(amount, from, to)
get_swap_quote(from_to, amount) ==
    /\ qcall["engine"].pc \in {"idle", "done"}
    /\ ncalls < MaxCalls
    /\ ncalls' = ncalls + 1
    /\ GetSwapQuote("engine", from_to, amount, FALSE)
    /\ UNCHANGED <<quote_cache, unit_price_cache, rate_limited, swap, now,
                   nonClientVars>>

\* a retry loop that never sees its last attempt
is_last_attempt_never(attempt) == FALSE

\* `attempt < self.max_retries - 1` is false: no attempt is left
is_last_attempt(attempt) == ~(attempt < max_retries - 1)

\* PanoraClient.__init__ default of base_retry_delay, in seconds
base_retry_delay == 1

\* resp.headers.get("Retry-After"): absent, a string of decimal digits, or
\* another string (an HTTP-date `value` seconds ahead)
NoHeader == [present |-> FALSE, isdigit |-> FALSE, value |-> 0]
RetryAfterHeaders ==
    {NoHeader,
     [present |-> TRUE, isdigit |-> TRUE, value |-> 0],
     [present |-> TRUE, isdigit |-> TRUE, value |-> 3],
     [present |-> TRUE, isdigit |-> FALSE, value |-> 7]}

\* a back-off that takes no notice of the header or of the attempt
wait_time_fixed(retry_after, attempt) == base_retry_delay

\* `if retry_after and retry_after.isdigit(): wait_time = int(retry_after)`
\* `else: wait_time = self.base_retry_delay * (2 ** attempt)`
wait_time(retry_after, attempt) ==
    IF retry_after.present /\ retry_after.isdigit THEN retry_after.value
    ELSE base_retry_delay * 2^attempt

\* a rate-limit test that knows 429 only
is_rate_limit_status_429_only(status) == status = "429"

\* `resp.status in (429, 503)`
is_rate_limit_status(status) == status \in {"429", "503"}

\* The response to the request of the current attempt, given its status,
\* its body and its Retry-After header.
http_response_hdr(c, status, body, retry_after) ==
    /\ qcall[c].pc = "http"
    /\ LET q == qcall[c]
           quote == MkQuote("real", q.dir, q.amount, body[1], body[2])
           last == is_last_attempt(q.attempt)
       IN IF status = "200"
          THEN /\ rate_limited' = FALSE
               /\ IF body[2] = "invalid"
                  THEN /\ qcall' = [qcall EXCEPT ![c].pc = "done",
                                                 ![c].attempt = 0,
                                                 ![c].sent_at = None,
                                                 ![c].sleeps = 0]
                       /\ UNCHANGED <<quote_cache, unit_price_cache>>
                  ELSE /\ quote_cache' =
                              store_cached_quote(q.dir, q.amount, quote)
                       /\ unit_price_cache' =
                              store_unit_price(q.dir, q.amount, body[1])
                       /\ qcall' = [qcall EXCEPT ![c].pc = "done",
                                                 ![c].attempt = 0,
                                                 ![c].sent_at = None,
                                                 ![c].sleeps = 0,
                                                 ![c].ret = quote]
          ELSE IF is_rate_limit_status(status)
          THEN /\ rate_limited' = TRUE
               /\ qcall' = [qcall EXCEPT ![c] =
                      IF last THEN [q EXCEPT !.pc = "done", !.attempt = 0,
                                             !.sent_at = None, !.sleeps = 0]
                      ELSE [q EXCEPT !.pc = "backoff", !.sent_at = None,
                                     !.sleeps = @ + 1,
                                     !.wait_time =
                                        wait_time(retry_after, q.attempt)]]
               /\ UNCHANGED <<quote_cache, unit_price_cache>>
          ELSE IF status = "timeout"
          THEN /\ qcall' = [qcall EXCEPT ![c] =
                      IF last THEN [q EXCEPT !.pc = "done", !.attempt = 0,
                                             !.sent_at = None, !.sleeps = 0]
                      ELSE [q EXCEPT !.pc = "backoff", !.sent_at = None,
                                     !.sleeps = @ + 1,
                                     !.wait_time =
                                        wait_time(NoHeader, q.attempt)]]
               /\ UNCHANGED <<quote_cache, unit_price_cache, rate_limited>>
          ELSE /\ qcall' = [qcall EXCEPT ![c].pc = "done", ![c].attempt = 0,
                                    ![c].sent_at = None, ![c].sleeps = 0]
               /\ UNCHANGED <<quote_cache, unit_price_cache, rate_limited>>
    /\ UNCHANGED <<total_requests, cache_hits, ncalls, swap, now,
                   nonClientVars>>

\* The same for a response that carries no Retry-After header.
http_response_with(c, status, body) ==
    http_response_hdr(c, status, body, NoHeader)

\* The response to the request of the current attempt.
http_response(c) ==
    \E status \in HttpStatuses, body \in ResponseBodies :
        http_response_with(c, status, body)

\* `await asyncio.sleep(wait_time); continue`: the next attempt's request
http_retry(c) ==
    /\ qcall[c].pc = "backoff"
    /\ qcall' = [qcall EXCEPT ![c].pc = "http",
                              ![c].attempt = qcall[c].attempt + 1,
                              ![c].sent_at = now,
                              ![c].wait_time = None]
    /\ UNCHANGED <<quote_cache, unit_price_cache, rate_limited, total_requests,
                   cache_hits, ncalls, swap, now, nonClientVars>>

\* ------------------------------------------------------------------------
\* PanoraPoller.poll (exchanges/panora_poller.py) on PanoraClient.get_price.
\* Prices are counted in 1/100 of the to-token per from-token.
\* ------------------------------------------------------------------------
\* the None of get_price
NoPrice == <<None, None>>

\* a get_price that quotes the two sides apart
get_price_two_sided(forward_quote, amount) ==
    IF forward_quote.kind = "none" THEN NoPrice
    ELSE IF forward_quote.to_amount = None \/ forward_quote.to_amount <= 0
    THEN NoPrice
    ELSE LET price == (forward_quote.to_amount * QS) \div amount
         IN <<price, price + 1>>

\* PanoraClient.get_price on the quote get_swap_quote(amount) returned:
\* `if not forward_quote`, parse_to_token_amount, `(price, price)`
get_price(forward_quote, amount) ==
    IF forward_quote.kind = "none" THEN NoPrice
    ELSE IF forward_quote.to_amount = None \/ forward_quote.to_amount <= 0
    THEN NoPrice
    ELSE LET price == (forward_quote.to_amount * QS) \div amount
         IN <<price, price>>

\* self.inverse_symbol, the store key of the opposite direction
inverse_symbol(symbol) ==
    IF symbol = "APT_AMI" THEN "AMI_APT"
    ELSE IF symbol = "AMI_APT" THEN "APT_AMI"
    ELSE "none"

\* 1.0 / bid_price
inv_price(bid_price) == (100 * 100) \div bid_price

\* The body of the poll loop after `await self.client.get_price(...)`
\* resumes, up to the sleep: the write under self.symbol and, when
\* also_update_inverse is set, the write under self.inverse_symbol.
poll_with(also_update_inverse) ==
    /\ qcall["engine"].pc = "done"
    /\ nupdates < MaxUpdates
    /\ qcall' = [qcall EXCEPT !["engine"].pc = "idle"]
    /\ LET q == qcall["engine"]
           price_pair == get_price(q.ret, q.amount)
           bid_price == price_pair[1]
           ask_price == price_pair[2]
           forward == update_of(prices, "panora", q.dir, bid_price,
                                ask_price, 10000, 10000)
       IN IF price_pair = NoPrice
          THEN UNCHANGED storeVars
          ELSE IF also_update_inverse /\ bid_price > 0
          THEN /\ prices' = update_of(forward, "panora",
                                      inverse_symbol(q.dir),
                                      inv_price(bid_price),
                                      inv_price(bid_price), 10000, 10000)
               /\ last_update' = [exchange |-> "panora",
                                  symbol |-> inverse_symbol(q.dir),
                                  bid |-> inv_price(bid_price),
                                  ask |-> inv_price(bid_price),
                                  bid_qty |-> 10000, ask_qty |-> 10000]
               /\ nupdates' = nupdates + 2
          ELSE /\ prices' = forward
               /\ last_update' = [exchange |-> "panora", symbol |-> q.dir,
                                  bid |-> bid_price, ask |-> ask_price,
                                  bid_qty |-> 10000, ask_qty |-> 10000]
               /\ nupdates' = nupdates + 1
    /\ UNCHANGED <<quote_cache, unit_price_cache, rate_limited,
                   total_requests, cache_hits, ncalls, swap, now, execVars,
                   engineVars, engine_cfg, scan, procVars>>

poll == \E also_update_inverse \in BOOLEAN : poll_with(also_update_inverse)

\* ------------------------------------------------------------------------
\* PanoraExecutor.execute_swap (exchanges/panora_executor.py)
\* ------------------------------------------------------------------------
GAS_UNIT_PRICE == 100
MIN_GAS_UNITS == 5000
MAX_GAS_UNITS == 200000

AptOctas == {None, 555555, 555556}  \* _check_apt_balance: error, octas

NoSwap == [pc |-> "idle", dir |-> "none", from_amount |-> 0,
           prefetched_quote |-> NoQuote, quote_src |-> "none",
           quote |-> NoQuote, built |-> FALSE, max_gas |-> 0,
           ret |-> "none"]

\* a gas budget taken from the whole balance, with no share kept back
compute_max_gas_whole_balance(apt_octas) ==
    IF apt_octas = None THEN MAX_GAS_UNITS
    ELSE Max(Min(MAX_GAS_UNITS, apt_octas \div GAS_UNIT_PRICE), 0)

\* PanoraExecutor._compute_max_gas
compute_max_gas(apt_octas) ==
    IF apt_octas = None THEN MAX_GAS_UNITS
    ELSE Max(Min(MAX_GAS_UNITS, ((apt_octas * 9) \div 10) \div GAS_UNIT_PRICE), 0)

\* len(PANORA_ROUTER_PARAM_TYPES)
ROUTER_PARAM_COUNT == 20

\* The transaction payload of a quote as steps 3 and 4 look at it: whether
\* _extract_payload finds one, whether its function field is non-empty, how
\* many arguments it carries and whether _bcs_encode and the type tags
\* accept them.
NoPayload == [present |-> FALSE, function |-> FALSE, nargs |-> 0,
              encodable |-> FALSE]
Payloads ==
    {NoPayload} \cup
    [present : {TRUE}, function : BOOLEAN,
     nargs : {0, ROUTER_PARAM_COUNT - 1, ROUTER_PARAM_COUNT,
              ROUTER_PARAM_COUNT + 1},
     encodable : BOOLEAN]

\* a count test that lets surplus arguments through, as zip() would drop
\* them
args_match_schema_prefix(nargs) == nargs >= ROUTER_PARAM_COUNT

\* `len(raw_args) != len(PANORA_ROUTER_PARAM_TYPES)` is false
args_match_schema(nargs) == nargs = ROUTER_PARAM_COUNT

\* what steps 3 and 4 make of a payload: "none" when there is no payload,
\* "bad" when the function field is empty, the argument count is not the
\* schema's or the encoding fails, "ok" when the entry function is built
txdata_of(payload) ==
    IF ~payload.present THEN "none"
    ELSE IF ~payload.function THEN "bad"
    ELSE IF ~args_match_schema(payload.nargs) THEN "bad"
    ELSE IF ~payload.encodable THEN "bad"
    ELSE "ok"

\* a real quote for 1000000 APT->AMI carrying the payload
PayloadQuote(payload) ==
    MkQuote("real", "APT_AMI", 1000000, 300, txdata_of(payload))

\* Steps 3 and 4 on the chosen quote: `if not quote`, payload extraction,
\* argument encoding.  The entry function is built or the swap returns None.
BuildEntryFunction(sw, quote) ==
    IF quote.kind # "none" /\ quote.txdata = "ok"
    THEN [sw EXCEPT !.quote = quote, !.built = TRUE, !.pc = "gas"]
    ELSE [sw EXCEPT !.quote = quote, !.pc = "done", !.ret = "None"]

\* execute_swap from its entry to its first await or return.  Step 1 only
\* sets the wallet address the client adds to its request parameters.
execute_swap(from_to, from_amount, prefetched_quote) ==
    /\ swap.pc \in {"idle", "done"}
    /\ qcall["executor"].pc \in {"idle", "done"}
    /\ ncalls < MaxCalls
    /\ ncalls' = ncalls + 1
    /\ LET sw == [NoSwap EXCEPT !.dir = from_to, !.from_amount = from_amount,
                                !.prefetched_quote = prefetched_quote]
       IN IF ~wallet_str
          THEN /\ swap' = [sw EXCEPT !.pc = "done", !.ret = "None"]
               /\ UNCHANGED <<qcall, total_requests, cache_hits>>
          ELSE IF reuse_prefetched(prefetched_quote)
          THEN /\ swap' = BuildEntryFunction(
                              [sw EXCEPT !.quote_src = "prefetched"],
                              prefetched_quote)
               /\ UNCHANGED <<qcall, total_requests, cache_hits>>
          ELSE /\ swap' = [sw EXCEPT !.quote_src = "fetched", !.pc = "quote"]
               /\ GetSwapQuote("executor", from_to, from_amount, TRUE)
    /\ UNCHANGED <<quote_cache, unit_price_cache, rate_limited, now,
                   nonClientVars>>

\* `quote = await self.panora_client.get_swap_quote(...)` resumes
swap_quote_return ==
    /\ swap.pc = "quote" /\ qcall["executor"].pc = "done"
    /\ swap' = BuildEntryFunction(swap, qcall["executor"].ret)
    /\ UNCHANGED <<quote_cache, unit_price_cache, rate_limited, total_requests,
                   cache_hits, qcall, ncalls, now, nonClientVars>>

\* Step 5: `apt_octas = await self._check_apt_balance(wallet)` resumes with
\* the balance apt_octas, None when the query failed
swap_check_gas_with(apt_octas) ==
    /\ swap.pc = "gas"
    /\ swap' = IF apt_octas # None
                  /\ compute_max_gas(apt_octas) < MIN_GAS_UNITS
               THEN [swap EXCEPT !.pc = "done", !.ret = "None",
                                 !.max_gas = compute_max_gas(apt_octas)]
               ELSE [swap EXCEPT !.pc = "submit",
                                 !.max_gas = compute_max_gas(apt_octas)]
    /\ UNCHANGED <<quote_cache, unit_price_cache, rate_limited, total_requests,
                   cache_hits, qcall, ncalls, now, nonClientVars>>

\* Step 5: `apt_octas = await self._check_apt_balance(wallet)` resumes
swap_check_gas == \E apt_octas \in AptOctas : swap_check_gas_with(apt_octas)

\* Step 6: sign, submit, wait for the transaction
swap_submit ==
    /\ swap.pc = "submit"
    /\ \E outcome \in {"tx", "None"} :
         swap' = [swap EXCEPT !.pc = "done", !.ret = outcome]
    /\ UNCHANGED <<quote_cache, unit_price_cache, rate_limited, total_requests,
                   cache_hits, qcall, ncalls, now, nonClientVars>>

\* ------------------------------------------------------------------------
\* Init
\* ------------------------------------------------------------------------
ExecInit ==
    /\ dry_run \in BOOLEAN
    /\ panora_executor \in BOOLEAN
    /\ wallet_str \in BOOLEAN
    /\ tri_locked = FALSE
    /\ tri_waiters = <<>>
    /\ pc = [t \in Tasks |-> "idle"]
    /\ call = [t \in Tasks |-> NoCall]
    /\ result = [t \in Tasks |-> "none"]
    /\ legs = [t \in Tasks |-> {}]
    /\ signals = [t \in Tasks |-> NoSignal]
    /\ nexec = 0

\* time.time() when the process starts: seconds since 1970, far beyond
\* every interval the program compares it with.
StartTime == 100

ClockInit == now = StartTime

\* the fees and the threshold of settings, no check made yet
ScanInit == engine_cfg = DefaultCfg /\ scan = NoScan

\* main() running, the feed not started
ProcInit == main_pc = "running" /\ feed = NoFeed

\* PriceCollector.__init__
StoreInit ==
    /\ prices = EmptyDict
    /\ last_update = NoUpdate
    /\ nupdates = 0

\* ArbitrageEngine.__init__, wired as main.py wires it
EngineInit ==
    /\ skip_panora_verify = FALSE
    /\ panora_client = TRUE
    /\ panora_apt_client = FALSE
    /\ trade_executor = TRUE
    /\ last_verify = EmptyDict
    /\ epc = "idle"
    /\ echeck = NoCheck
    /\ verify_log = <<>>
    /\ last_dispatch = NoDispatch

\* PanoraClient.__init__ and PanoraExecutor.__init__
ClientInit ==
    /\ quote_cache = EmptyDict
    /\ unit_price_cache = EmptyDict
    /\ rate_limited = FALSE
    /\ total_requests = 0
    /\ cache_hits = 0
    /\ qcall = [c \in Callers |-> NoQCall]
    /\ ncalls = 0
    /\ swap = NoSwap

Init == ExecInit /\ ClockInit /\ ScanInit /\ ProcInit /\ StoreInit /\ EngineInit /\ ClientInit

\* A task returns: its result is recorded and it is done.
Return(t, value) ==
    result' = [result EXCEPT ![t] = IF value THEN "True" ELSE "False"]

\* A task ends with an exception that nothing catches.
Raise(t) ==
    result' = [result EXCEPT ![t] = "raised"]

\* the dry-run test lost from the entry points
is_dry_run_off == FALSE

\* self.dry_run as tested by the three entry points
is_dry_run == dry_run

\* leg 2 started whatever leg 1 returned
leg1_ok_always(outcome) == TRUE

\* `if not tx` / TimeoutError after leg 1: only a transaction hash lets the
\* triangular execution go on to the CEX leg.
leg1_ok(outcome) == outcome = "tx"

\* ------------------------------------------------------------------------
\* TradeExecutor.execute_cex_cex
\* ------------------------------------------------------------------------
execute_cex_cex(t) ==
    /\ pc[t] = "idle" /\ nexec < MaxExec
    /\ \E p \in PricePairs, qty \in Qtys :
         LET c == [NoCall EXCEPT !.shape = "CEX_CEX",
                                 !.buy_price = p[1], !.sell_price = p[2],
                                 !.qty = qty,
                                 !.safe_qty = safe_qty_of(qty, p[1])]
         IN /\ nexec' = nexec + 1
            /\ legs' = [legs EXCEPT ![t] = {}]
            /\ IF is_dry_run
               THEN /\ signals' = [signals EXCEPT ![t] =
                          [type |-> "CEX_CEX", qty |-> c.safe_qty,
                           dry_run |-> dry_run, balance_gate |-> "none"]]
                    /\ call' = [call EXCEPT ![t] = [c EXCEPT !.exit = "signal"]]
                    /\ Return(t, TRUE)
                    /\ pc' = [pc EXCEPT ![t] = "done"]
               ELSE /\ signals' = [signals EXCEPT ![t] = NoSignal]
                    /\ call' = [call EXCEPT ![t] = c]
                    /\ result' = [result EXCEPT ![t] = "none"]
                    /\ pc' = [pc EXCEPT ![t] = "cc_gather"]
    /\ UNCHANGED <<nonExecVars, dry_run, panora_executor, wallet_str, tri_locked, tri_waiters>>

\* a result check that is content with one order id
both_filled_either(buy_id, sell_id) == buy_id \/ sell_id

\* `if buy_id and sell_id`
both_filled(buy_id, sell_id) == buy_id /\ sell_id

\* await asyncio.gather(buy_task, sell_task) and the result check, given
\* what becomes of the buy order (ob) and of the sell order (os)
cex_cex_gather_with(t, ob, os) ==
    /\ pc[t] = "cc_gather"
    /\ LET c == call[t]
           buy_id == OrderOk(c.safe_qty, ob)
           sell_id == OrderOk(c.safe_qty, os)
       IN /\ legs' = [legs EXCEPT ![t] =
                 CexLegs("buy", c.safe_qty, c.buy_price, ob)
                 \cup CexLegs("sell", c.safe_qty, c.sell_price, os)]
          /\ Return(t, both_filled(buy_id, sell_id))
          /\ call' = [call EXCEPT ![t].exit =
                 IF both_filled(buy_id, sell_id) THEN "complete"
                 ELSE IF buy_id \/ sell_id THEN "partial" ELSE "failed"]
    /\ pc' = [pc EXCEPT ![t] = "done"]
    /\ UNCHANGED <<nonExecVars, dry_run, panora_executor, wallet_str, tri_locked, tri_waiters,
                   signals, nexec>>

\* await asyncio.gather(buy_task, sell_task) and the result check
cex_cex_gather(t) ==
    \E ob \in OrderOutcomes \ {"timeout"}, os \in OrderOutcomes \ {"timeout"} :
        cex_cex_gather_with(t, ob, os)

\* ------------------------------------------------------------------------
\* TradeExecutor.execute_dex_cex
\* ------------------------------------------------------------------------
\* The quote handed over by the engine was requested for the amount the
\* engine computed from the uncapped qty: qty * price USDT when buying on
\* the DEX, qty AMI when selling on the DEX.
EngineDexCexQuote(kind, direction, qty, buy_price) ==
    Quote(kind, IF direction = "BUY_DEX_SELL_CEX" THEN qty * buy_price ELSE qty)

execute_dex_cex(t) ==
    /\ pc[t] = "idle" /\ nexec < MaxExec
    /\ \E direction \in DexCexDirections,
          p \in PricePairs, qty \in Qtys, kind \in QuoteKinds,
          swap_call \in {"coroutine", "type_error"} :
         LET c == [NoCall EXCEPT !.shape = "DEX_CEX",
                                 !.direction = direction,
                                 !.buy_price = p[1], !.sell_price = p[2],
                                 !.qty = qty,
                                 !.prefetched_quote =
                                     EngineDexCexQuote(kind, direction, qty, p[1]),
                                 !.safe_qty = safe_qty_of(qty, p[1])]
         IN /\ nexec' = nexec + 1
            /\ legs' = [legs EXCEPT ![t] = {}]
            /\ IF ~panora_executor
               THEN /\ signals' = [signals EXCEPT ![t] = NoSignal]
                    /\ call' = [call EXCEPT ![t] = [c EXCEPT !.exit = "no_executor"]]
                    /\ Return(t, FALSE)
                    /\ pc' = [pc EXCEPT ![t] = "done"]
               ELSE IF is_dry_run
               THEN /\ signals' = [signals EXCEPT ![t] =
                          [type |-> "DEX_CEX", qty |-> c.safe_qty,
                           dry_run |-> dry_run, balance_gate |-> "none"]]
                    /\ call' = [call EXCEPT ![t] = [c EXCEPT !.exit = "signal"]]
                    /\ Return(t, TRUE)
                    /\ pc' = [pc EXCEPT ![t] = "done"]
               ELSE IF direction = "UNKNOWN"
               THEN /\ signals' = [signals EXCEPT ![t] = NoSignal]
                    /\ call' = [call EXCEPT ![t] =
                                   [c EXCEPT !.exit = "unknown_direction"]]
                    /\ Return(t, FALSE)
                    /\ pc' = [pc EXCEPT ![t] = "done"]
               ELSE IF swap_call = "type_error"
               THEN /\ signals' = [signals EXCEPT ![t] = NoSignal]
                    /\ call' = [call EXCEPT ![t] =
                                   [c EXCEPT !.swap = "type_error",
                                             !.exit = "type_error"]]
                    /\ Raise(t)
                    /\ pc' = [pc EXCEPT ![t] = "done"]
               ELSE /\ signals' = [signals EXCEPT ![t] = NoSignal]
                    /\ call' = [call EXCEPT ![t] = c]
                    /\ result' = [result EXCEPT ![t] = "none"]
                    /\ pc' = [pc EXCEPT ![t] = "dc_gather"]
    /\ UNCHANGED <<nonExecVars, dry_run, panora_executor, wallet_str, tri_locked, tri_waiters>>

\* await asyncio.gather(dex_task, cex_task) and the result check
dex_cex_gather(t) ==
    /\ pc[t] = "dc_gather"
    /\ \E od \in SwapOutcomes \ {"timeout", "timeout_after_submit"},
          oc \in OrderOutcomes \ {"timeout"} :
         LET c == call[t]
             dex == IF c.direction = "BUY_DEX_SELL_CEX"
                    THEN DexLeg(c.safe_qty * c.buy_price, c.prefetched_quote, 1)
                    ELSE DexLeg(c.safe_qty, c.prefetched_quote, c.sell_price)
             cex == IF c.direction = "BUY_DEX_SELL_CEX"
                    THEN CexLegs("sell", c.safe_qty, c.sell_price, oc)
                    ELSE CexLegs("buy", c.safe_qty, c.buy_price, oc)
         IN /\ legs' = [legs EXCEPT ![t] =
                   (IF SwapSubmitted(od) THEN {dex} ELSE {}) \cup cex]
            /\ Return(t, od = "tx" /\ OrderOk(c.safe_qty, oc))
            /\ call' = [call EXCEPT ![t].swap = od,
                                    ![t].exit =
                   IF od = "tx" /\ OrderOk(c.safe_qty, oc)
                   THEN "complete" ELSE "partial"]
    /\ pc' = [pc EXCEPT ![t] = "done"]
    /\ UNCHANGED <<nonExecVars, dry_run, panora_executor, wallet_str, tri_locked, tri_waiters,
                   signals, nexec>>

\* ------------------------------------------------------------------------
\* TradeExecutor.execute_triangular
\* ------------------------------------------------------------------------
\* Entry up to `async with lock`: no executor -> False; lock held -> False
\* (the signal is skipped); otherwise lock.acquire().
execute_triangular_with(t, direction, cex_name, p, qty, kind) ==
    /\ pc[t] = "idle" /\ nexec < MaxExec
    /\ call' = [call EXCEPT ![t] =
                    [NoCall EXCEPT !.shape = "TRI",
                                   !.direction = direction,
                                   !.cex_name = cex_name,
                                   !.buy_price = p[1], !.sell_price = p[2],
                                   !.qty = qty,
                                   !.prefetched_quote = Quote(kind, qty),
                                   !.exit = IF ~panora_executor THEN "no_executor"
                                            ELSE IF lock_locked THEN "skipped"
                                            ELSE "none"]]
    /\ nexec' = nexec + 1
    /\ legs' = [legs EXCEPT ![t] = {}]
    /\ signals' = [signals EXCEPT ![t] = NoSignal]
    /\ IF ~panora_executor
       THEN /\ Return(t, FALSE)
            /\ pc' = [pc EXCEPT ![t] = "done"]
            /\ UNCHANGED <<tri_locked, tri_waiters>>
       ELSE IF lock_locked
       THEN /\ Return(t, FALSE)
            /\ pc' = [pc EXCEPT ![t] = "done"]
            /\ UNCHANGED <<tri_locked, tri_waiters>>
       ELSE /\ result' = [result EXCEPT ![t] = "none"]
            /\ IF ~tri_locked
               THEN /\ tri_locked' = TRUE
                    /\ pc' = [pc EXCEPT ![t] = "tri_locked"]
                    /\ UNCHANGED tri_waiters
               ELSE /\ tri_waiters' = Append(tri_waiters, t)
                    /\ pc' = [pc EXCEPT ![t] = "tri_wait"]
                    /\ UNCHANGED tri_locked
    /\ UNCHANGED <<nonExecVars, dry_run, panora_executor, wallet_str>>

\* the same for a signal of the Bybit check, whatever its direction, prices,
\* quantity and quote
execute_triangular(t) ==
    \E direction \in TriDirections,
       p \in PricePairs, qty \in Qtys, kind \in QuoteKinds :
        execute_triangular_with(t, direction, "Bybit", p, qty, kind)

\* _execute_triangular_locked up to its first await: wallet lookup, safety
\* cap, hedge quantity, then the dry-run branch or leg 1.
execute_triangular_locked(t) ==
    /\ pc[t] = "tri_locked"
    /\ LET c == call[t]
           sq == safe_qty_of(c.qty, c.buy_price)
       IN IF c.direction = "UNKNOWN"
          THEN /\ Return(t, FALSE)
               /\ ReleaseLock(t, "done")
               /\ call' = [call EXCEPT ![t].exit = "unknown_direction"]
          ELSE /\ call' = [call EXCEPT ![t].safe_qty = sq,
                                       ![t].hedge_qty =
                                           hedge_qty_of(sq, c.buy_price, c.sell_price)]
               /\ pc' = [pc EXCEPT ![t] =
                          IF is_dry_run THEN "tri_gate" ELSE "tri_leg1"]
               /\ UNCHANGED <<result, tri_locked, tri_waiters>>
    /\ UNCHANGED <<nonExecVars, dry_run, panora_executor, wallet_str, legs, signals, nexec>>

\* notional_in = safe_qty * cex_apt_ask (APT_TO_AMI), in 1/QS USDT
notional_in(c) == c.safe_qty * c.buy_price

\* notional_out = ami_to_sell * cex_ami_bid (APT_TO_AMI), in 1/QS USDT
notional_out(c) == c.hedge_qty * c.sell_price

\* net_profit = notional_out - notional_in - notional_in * settings.panora_fee
\*              - notional_out * settings.<cex>_fee
net_profit(c) ==
    notional_out(c) - notional_in(c)
    - fdiv(notional_in(c) * engine_cfg.panora_fee, FEE_SCALE)
    - fdiv(notional_out(c) * cex_fee_of(c.cex_name), FEE_SCALE)

\* Dry-run branch: the balance check, the signal, `return True`.
tri_dry_run(t) ==
    /\ pc[t] = "tri_gate"
    /\ \E wallet_bal \in WalletBalances, cex_bal \in CexBalances :
         LET c == call[t]
             bal_check == check_tri_balances(wallet_str, wallet_bal, cex_bal,
                                             c.safe_qty, c.hedge_qty)
         IN /\ signals' = [signals EXCEPT ![t] =
                [type |-> IF c.direction = "APT_TO_AMI"
                          THEN "TRI_APT_TO_AMI" ELSE "TRI_AMI_TO_APT",
                 qty |-> c.safe_qty,
                 notional_in_usdt |-> notional_in(c),
                 notional_out_usdt |-> notional_out(c),
                 profit_usdt |-> net_profit(c),
                 dry_run |-> dry_run,
                 balance_gate |-> IF bal_check THEN "PASS" ELSE "FAIL"]]
            /\ call' = [call EXCEPT ![t].wallet_bal = wallet_bal,
                                    ![t].cex_bal = cex_bal,
                                    ![t].bal_check =
                                        IF bal_check THEN "PASS" ELSE "FAIL",
                                    ![t].exit = "signal"]
    /\ Return(t, TRUE)
    /\ ReleaseLock(t, "done")
    /\ UNCHANGED <<nonExecVars, dry_run, panora_executor, wallet_str, legs, nexec>>

\* Leg 1: await wait_for(execute_swap(safe_qty, ...), _LEG_TIMEOUT_S).
\* Only asyncio.TimeoutError is caught: a TypeError raised by the call leaves
\* `async with lock` (releasing the lock) and ends the task.
tri_leg1(t) ==
    /\ pc[t] = "tri_leg1"
    /\ \E od \in SwapCallOutcomes :
         LET c == call[t]
         IN /\ legs' = [legs EXCEPT ![t] =
                   IF SwapSubmitted(od)
                   THEN {DexLeg(c.safe_qty, c.prefetched_quote, c.buy_price)}
                   ELSE {}]
            /\ IF leg1_ok(od)
               THEN /\ pc' = [pc EXCEPT ![t] = "tri_leg2"]
                    /\ call' = [call EXCEPT ![t].swap = od]
                    /\ UNCHANGED <<result, tri_locked, tri_waiters>>
               ELSE /\ IF od = "type_error" THEN Raise(t) ELSE Return(t, FALSE)
                    /\ call' = [call EXCEPT ![t].swap = od,
                                            ![t].exit =
                           IF od = "type_error" THEN "type_error"
                           ELSE IF od \in {"timeout", "timeout_after_submit"}
                           THEN "swap_timeout" ELSE "swap_failed"]
                    /\ ReleaseLock(t, "done")
    /\ UNCHANGED <<nonExecVars, dry_run, panora_executor, wallet_str, signals, nexec>>

\* Leg 2: await wait_for(_cex_sell(cex_name, symbol, hedge), _LEG_TIMEOUT_S)
tri_leg2(t) ==
    /\ pc[t] = "tri_leg2"
    /\ \E oc \in OrderOutcomes :
         LET c == call[t]
         IN /\ legs' = [legs EXCEPT ![t] =
                   legs[t] \cup CexLegs("sell", c.hedge_qty, c.sell_price, oc)]
            /\ Return(t, OrderOk(c.hedge_qty, oc))
            /\ call' = [call EXCEPT ![t].exit =
                   IF OrderOk(c.hedge_qty, oc) THEN "complete"
                   ELSE IF oc = "timeout" THEN "order_timeout"
                   ELSE "order_failed"]
    /\ ReleaseLock(t, "done")
    /\ UNCHANGED <<nonExecVars, dry_run, panora_executor, wallet_str, signals, nexec>>

\* A finished task is collected; its slot can run the next dispatched signal.
task_done(t) ==
    /\ pc[t] = "done"
    /\ pc' = [pc EXCEPT ![t] = "idle"]
    /\ call' = [call EXCEPT ![t] = NoCall]
    /\ result' = [result EXCEPT ![t] = "none"]
    /\ legs' = [legs EXCEPT ![t] = {}]
    /\ signals' = [signals EXCEPT ![t] = NoSignal]
    /\ UNCHANGED <<nonExecVars, dry_run, panora_executor, wallet_str, tri_locked, tri_waiters,
                   nexec>>

ExecNext ==
    \E t \in Tasks :
        \/ execute_cex_cex(t)
        \/ cex_cex_gather(t)
        \/ execute_dex_cex(t)
        \/ dex_cex_gather(t)
        \/ execute_triangular(t)
        \/ execute_triangular_locked(t)
        \/ tri_dry_run(t)
        \/ tri_leg1(t)
        \/ tri_leg2(t)
        \/ task_done(t)

Next == ExecNext

Spec == Init /\ [][Next]_vars

\* ------------------------------------------------------------------------
\* Triangular signals of a dry-run executor, at the default fee rates and
\* at zero fee rates
\* ------------------------------------------------------------------------
\* <<price of the coin bought, price of the coin sold>>, with ratios that
\* are whole and ratios that are not
DryRunPairs == {<<2, 5>>, <<5, 7>>, <<7, 3>>}

DryRunSpecInit ==
    /\ dry_run = TRUE /\ panora_executor = TRUE /\ wallet_str \in BOOLEAN
    /\ tri_locked = FALSE
    /\ tri_waiters = <<>>
    /\ pc = [t \in Tasks |-> "idle"]
    /\ call = [t \in Tasks |-> NoCall]
    /\ result = [t \in Tasks |-> "none"]
    /\ legs = [t \in Tasks |-> {}]
    /\ signals = [t \in Tasks |-> NoSignal]
    /\ nexec = 0
    /\ ClockInit /\ ProcInit /\ StoreInit /\ EngineInit /\ ClientInit
    /\ engine_cfg \in {DefaultCfg, ZeroCfg}
    /\ scan = NoScan

DryRunNext ==
    \E t \in Tasks :
        \/ \E direction \in TriDirections, cex_name \in CexNames,
              p \in DryRunPairs, qty \in Qtys :
              execute_triangular_with(t, direction, cex_name, p, qty, "none")
        \/ execute_triangular_locked(t)
        \/ tri_dry_run(t)
        \/ task_done(t)

DryRunSpec == DryRunSpecInit /\ [][DryRunNext]_vars

\* ------------------------------------------------------------------------
\* TradeExecutor._cex_buy / _cex_sell on their own
\* ------------------------------------------------------------------------
\* Quantities on both sides of every precision threshold of _floor_qty, in
\* 1/QS coins: below zero, zero, 0.000001, 0.009999, 0.01, 0.012345,
\* 0.999999, 1, 1.234567, 99.999999, 100 and 150.5 coins.
FloorQtys == {0 - 1, 0, 1, 9999, 10000, 12345, 999999, 1000000, 1234567,
              99999999, 100000000, 150500000}

CexSides == {"buy", "sell"}

\* _cex_buy(exchange, symbol, qty) / _cex_sell(exchange, symbol, qty) called
\* with `qty` at price 2, given what becomes of the order
cex_order_with(t, side, qty, outcome) ==
    /\ pc[t] = "idle" /\ nexec < MaxExec
    /\ nexec' = nexec + 1
    /\ call' = [call EXCEPT ![t] = [NoCall EXCEPT !.shape = "CEX_ORDER",
                                                  !.direction = side,
                                                  !.qty = qty]]
    /\ legs' = [legs EXCEPT ![t] = CexLegs(side, qty, 2, outcome)]
    /\ Return(t, OrderOk(qty, outcome))
    /\ pc' = [pc EXCEPT ![t] = "done"]
    /\ UNCHANGED <<nonExecVars, dry_run, panora_executor, wallet_str, tri_locked,
                   tri_waiters, signals>>

cex_order(t) ==
    \E side \in CexSides, qty \in FloorQtys, outcome \in OrderOutcomes \ {"timeout"} :
        cex_order_with(t, side, qty, outcome)

FloorNext == \E t \in Tasks : cex_order(t) \/ task_done(t)

FloorSpec == Init /\ [][FloorNext]_vars

\* the lot size the claim names for a quantity, in 1/QS coins
lot_of(qty) ==
    IF qty >= 100 * QS THEN QS
    ELSE IF qty >= QS THEN QS \div 100
    ELSE IF qty >= QS \div 100 THEN QS \div 10000
    ELSE 1

\* C34: the quantity of every order sent to a CEX is the requested quantity
\* floored to its lot (whole coins from 100, two decimals from 1, four
\* decimals from 0.01, six decimals below), and a request whose floored
\* quantity is zero or less sends no order and returns failure.
C34_FlooredQty ==
    \A t \in Tasks :
        (pc[t] = "done" /\ call[t].shape = "CEX_ORDER") =>
            LET q == call[t].qty
            IN /\ \A l \in legs[t] :
                     /\ l.qty > 0
                     /\ l.qty % lot_of(q) = 0
                     /\ l.qty <= q
                     /\ q - l.qty < lot_of(q)
               /\ result[t] = "True" => legs[t] # {}
               /\ q < lot_of(q) => (legs[t] = {} /\ result[t] = "False")

\* a request for 150.5 coins went out as an order for 150 coins, while a
\* request for zero coins sent nothing and failed
C34_Witness ==
    /\ pc[1] = "done" /\ call[1].shape = "CEX_ORDER" /\ call[1].qty = 150500000
    /\ \E l \in legs[1] : l.qty = 150 * QS
    /\ pc[2] = "done" /\ call[2].shape = "CEX_ORDER" /\ call[2].qty = 0
    /\ legs[2] = {} /\ result[2] = "False"

\* ------------------------------------------------------------------------
\* main(): shutdown
\* ------------------------------------------------------------------------
\* The executor as main() builds it for live trading: a PanoraExecutor with
\* a wallet, DRY_RUN off; the feed task connected, the engine loop running.
ShutdownSpecInit ==
    /\ dry_run = FALSE /\ panora_executor = TRUE /\ wallet_str = TRUE
    /\ tri_locked = FALSE /\ tri_waiters = <<>>
    /\ pc = [t \in Tasks |-> "idle"]
    /\ call = [t \in Tasks |-> NoCall]
    /\ result = [t \in Tasks |-> "none"]
    /\ legs = [t \in Tasks |-> {}]
    /\ signals = [t \in Tasks |-> NoSignal]
    /\ nexec = 0
    /\ ClockInit /\ ScanInit /\ StoreInit /\ EngineInit /\ ClientInit
    /\ main_pc = "running"
    /\ feed = [NoFeed EXCEPT !.pc = "receiving"]

\* The engine creates an execution task (asyncio.create_task in the checks)
\* only while its own loop is alive.
engine_alive == epc # "cancelled"

\* An execution task goes on from an await only while the event loop runs.
loop_running == main_pc # "exited"

\* _signal_handler: shutdown_event.set() wakes main()
shutdown_signal ==
    /\ main_pc = "running"
    /\ main_pc' = "signalled"
    /\ UNCHANGED <<execVars, now, storeVars, engineVars, clientVars,
                   engine_cfg, scan, feed>>

\* `for t in tasks: t.cancel()` and the gather of the four tasks: the feeds
\* and the engine loop end with CancelledError.  The tasks the engine
\* created are not in `tasks`.
main_cancel_tasks ==
    /\ main_pc = "signalled"
    /\ main_pc' = "closing"
    /\ feed' = [feed EXCEPT !.pc = "cancelled"]
    /\ epc' = "cancelled"
    /\ UNCHANGED <<execVars, now, storeVars, clientVars, engine_cfg, scan,
                   skip_panora_verify, panora_client, panora_apt_client,
                   trade_executor, last_verify, echeck, verify_log,
                   last_dispatch>>

\* a task is suspended at an await of an execution
mid_flight(t) == pc[t] \notin {"idle", "done"}

\* what the awaited leg of a suspended execution has sent out if it got as
\* far as the exchange before the task was cancelled
InFlightLegs(t) ==
    LET c == call[t]
    IN IF pc[t] = "cc_gather"
       THEN CexLegs("buy", c.safe_qty, c.buy_price, "order_id")
            \cup CexLegs("sell", c.safe_qty, c.sell_price, "order_id")
       ELSE IF pc[t] = "tri_leg1"
       THEN {DexLeg(c.safe_qty, c.prefetched_quote, c.buy_price)}
       ELSE IF pc[t] = "tri_leg2"
       THEN CexLegs("sell", c.hedge_qty, c.sell_price, "order_id")
       ELSE {}

\* The two session closes, then main() returns and asyncio.run() cancels
\* every task that is still pending: a suspended execution gets
\* CancelledError at its await, which neither `except asyncio.TimeoutError`
\* nor `except Exception` catches; `async with lock` releases the lock.
main_return ==
    /\ main_pc = "closing"
    /\ main_pc' = "exited"
    /\ \E sent \in [Tasks -> BOOLEAN] :
         legs' = [t \in Tasks |->
                    IF mid_flight(t) /\ sent[t]
                    THEN legs[t] \cup InFlightLegs(t) ELSE legs[t]]
    /\ pc' = [t \in Tasks |-> IF mid_flight(t) THEN "done" ELSE pc[t]]
    /\ result' = [t \in Tasks |->
                    IF mid_flight(t) THEN "cancelled" ELSE result[t]]
    /\ call' = [t \in Tasks |->
                  IF mid_flight(t) THEN [call[t] EXCEPT !.exit = "cancelled"]
                  ELSE call[t]]
    /\ tri_locked' = FALSE
    /\ tri_waiters' = <<>>
    /\ UNCHANGED <<now, storeVars, engineVars, clientVars, engine_cfg, scan,
                   feed, dry_run, panora_executor, wallet_str, signals,
                   nexec>>

ShutdownNext ==
    \/ \E t \in Tasks :
         \/ engine_alive /\ execute_cex_cex(t)
         \/ engine_alive /\ execute_triangular(t)
         \/ loop_running /\ cex_cex_gather(t)
         \/ loop_running /\ execute_triangular_locked(t)
         \/ loop_running /\ tri_leg1(t)
         \/ loop_running /\ tri_leg2(t)
         \/ loop_running /\ task_done(t)
    \/ shutdown_signal
    \/ main_cancel_tasks
    \/ main_return

ShutdownSpec == ShutdownSpecInit /\ [][ShutdownNext]_vars

\* ------------------------------------------------------------------------
\* The wall clock
\* ------------------------------------------------------------------------
Tick ==
    /\ now < StartTime + MaxTicks
    /\ now' = now + 1
    /\ UNCHANGED <<execVars, storeVars, engineVars, clientVars, engine_cfg,
                   scan, procVars>>

\* no execution task dispatched
ExecIdle ==
    /\ tri_locked = FALSE
    /\ tri_waiters = <<>>
    /\ pc = [t \in Tasks |-> "idle"]
    /\ call = [t \in Tasks |-> NoCall]
    /\ result = [t \in Tasks |-> "none"]
    /\ legs = [t \in Tasks |-> {}]
    /\ signals = [t \in Tasks |-> NoSignal]
    /\ nexec = 0

\* the executor with nothing configured and nothing dispatched
ExecQuiet ==
    /\ dry_run = TRUE
    /\ panora_executor = FALSE
    /\ wallet_str = FALSE
    /\ ExecIdle

\* ------------------------------------------------------------------------
\* The price store fed by the exchange feeds
\* ------------------------------------------------------------------------
StoreSpecInit ==
    ExecQuiet /\ ClockInit /\ ScanInit /\ ProcInit /\ StoreInit /\ EngineInit /\ ClientInit

StoreNext ==
    \/ \E exchange \in Exchanges, symbol \in Symbols,
          bid \in StoreBids, ask \in StoreAsks, q \in StoreQtys :
            update(exchange, symbol, bid, ask, q[1], q[2])
    \/ Tick

StoreSpec == StoreSpecInit /\ [][StoreNext]_vars

\* ------------------------------------------------------------------------
\* The engine's detection calls, one at a time as run() awaits them, with
\* any constructor arguments
\* ------------------------------------------------------------------------
EngineSpecInit ==
    /\ ExecQuiet /\ ClockInit /\ ScanInit /\ ProcInit /\ StoreInit /\ ClientInit
    /\ skip_panora_verify \in BOOLEAN
    /\ panora_client = TRUE
    /\ panora_apt_client \in BOOLEAN
    /\ trade_executor = TRUE
    /\ last_verify = EmptyDict
    /\ epc = "idle"
    /\ echeck = NoCheck
    /\ verify_log = <<>>
    /\ last_dispatch = NoDispatch

EngineNext ==
    \/ \E cex_name \in CexNames : check_dex_cex(cex_name)
    \/ \E cex_name \in CexNames : check_triangular_apt_ami(cex_name)
    \/ verify_return
    \/ skip_quote_return
    \/ Tick

EngineSpec == EngineSpecInit /\ [][EngineNext]_vars

\* ------------------------------------------------------------------------
\* The two-CEX check on priced quotes, with and without fees and executor
\* ------------------------------------------------------------------------
CexCexSpecInit ==
    /\ ExecQuiet /\ ClockInit /\ ProcInit /\ StoreInit /\ ClientInit
    /\ engine_cfg \in {DefaultCfg, ZeroCfg}
    /\ scan = NoScan
    /\ skip_panora_verify = FALSE
    /\ panora_client = TRUE
    /\ panora_apt_client = FALSE
    /\ trade_executor \in BOOLEAN
    /\ last_verify = EmptyDict
    /\ epc = "idle"
    /\ echeck = NoCheck
    /\ verify_log = <<>>
    /\ last_dispatch = NoDispatch

CexCexNext == \E bybit \in CexBooks, mexc \in CexBooks : check_cex_cex(bybit, mexc)

CexCexSpec == CexCexSpecInit /\ [][CexCexNext]_vars

\* ------------------------------------------------------------------------
\* The DEX-CEX check on priced quotes, verification enabled
\* ------------------------------------------------------------------------
PricedSpecInit ==
    /\ ExecQuiet /\ ClockInit /\ ProcInit /\ StoreInit /\ ClientInit
    /\ engine_cfg \in {DefaultCfg, ZeroCfg}
    /\ scan = NoScan
    /\ skip_panora_verify = FALSE
    /\ panora_client = TRUE
    /\ panora_apt_client = FALSE
    /\ trade_executor \in BOOLEAN
    /\ last_verify = EmptyDict
    /\ epc = "idle"
    /\ echeck = NoCheck
    /\ verify_log = <<>>
    /\ last_dispatch = NoDispatch

PricedNext ==
    \/ \E panora \in PanoraBooks, cex \in DexCexBooks, cex_name \in CexNames :
          check_dex_cex_priced(panora, cex, cex_name)
    \/ \E to_amount \in (IF epc = "d1_verify" THEN BuyToAmounts
                          ELSE SellToAmounts) :
          verify_return_priced(to_amount)
    \/ Tick

PricedSpec == PricedSpecInit /\ [][PricedNext]_vars

\* ------------------------------------------------------------------------
\* The triangular check on priced quotes, verification enabled
\* ------------------------------------------------------------------------
TriPricedSpecInit ==
    /\ ExecQuiet /\ ClockInit /\ ProcInit /\ StoreInit /\ ClientInit
    /\ engine_cfg = TriCfg
    /\ scan = NoScan
    /\ skip_panora_verify = FALSE
    /\ panora_client = TRUE
    /\ panora_apt_client = TRUE
    /\ trade_executor \in BOOLEAN
    /\ last_verify = EmptyDict
    /\ epc = "idle"
    /\ echeck = NoCheck
    /\ verify_log = <<>>
    /\ last_dispatch = NoDispatch

TriPricedNext ==
    \/ \E cex_ami \in TriAmiBooks, cex_apt \in TriAptBooks,
          pan1 \in TriPanBooks1 \cup {NoPriceData},
          pan2 \in TriPanBooks2 \cup {NoPriceData}, cex_name \in CexNames :
          check_triangular_priced(cex_ami, cex_apt, pan1, pan2, cex_name)
    \/ \E to_amount \in (IF epc = "d1_verify" THEN TriToAmounts1
                          ELSE TriToAmounts2) :
          tri_verify_return_priced(to_amount)
    \/ Tick

TriPricedSpec == TriPricedSpecInit /\ [][TriPricedNext]_vars

\* ------------------------------------------------------------------------
\* The two Panora checks on quotes of several ages
\* ------------------------------------------------------------------------
\* settings.dex_cex_quote_max_age_s (1.5) and settings.tri_quote_max_age_s
\* (2.5): ages are whole seconds, so `age > 1.5` is `age > 1` and
\* `age > 2.5` is `age > 2`
dex_cex_quote_max_age_s == 1
tri_quote_max_age_s == 2

\* seconds since the quote was written
QuoteAges == {0, 3, STALE_MAX_AGE + 1}

\* PriceData.age
age(quote) == now - quote.timestamp

AgedSpecInit ==
    /\ ExecQuiet /\ ClockInit /\ ProcInit /\ StoreInit /\ ClientInit
    /\ engine_cfg = DefaultCfg
    /\ scan = NoScan
    /\ skip_panora_verify = FALSE
    /\ panora_client = TRUE
    /\ panora_apt_client = TRUE
    /\ trade_executor = TRUE
    /\ last_verify = EmptyDict
    /\ epc = "idle"
    /\ echeck = NoCheck
    /\ verify_log = <<>>
    /\ last_dispatch = NoDispatch

AgedNext ==
    \/ \E a \in QuoteAges, b \in QuoteAges, cex_name \in CexNames :
          check_dex_cex_priced(Book(60, 70, 72, 72, a),
                               Book(80, 81, 100, 100, b), cex_name)
    \/ \E to_amount \in {None, 72} :
          verify_return_priced(to_amount)
    \/ \E a \in QuoteAges, c \in QuoteAges, cex_name \in CexNames :
          check_triangular_priced(Book(6, 7, 100, 100, a),
                                  Book(4990, 5000, 100, 100, a),
                                  Book(1000, 1000, 10000, 10000, c),
                                  NoPriceData, cex_name)
    \/ \E to_amount \in {None, 2000} :
          tri_verify_return_priced(to_amount)
    \/ Tick

AgedSpec == AgedSpecInit /\ [][AgedNext]_vars

\* ages of quotes that pass the staleness test of a check: just written,
\* or one second short of stale
PassingAges == {0, STALE_MAX_AGE - 1}

\* detection calls on quotes that pass the staleness test, with the clock
\* running while the verification call is awaited
LateNext ==
    \/ \E a \in PassingAges, b \in PassingAges, cex_name \in CexNames :
          check_dex_cex_priced(Book(60, 70, 72, 72, a),
                               Book(80, 81, 100, 100, b), cex_name)
    \/ \E to_amount \in {None, 72} :
          verify_return_priced(to_amount)
    \/ \E a \in PassingAges, cex_name \in CexNames :
          check_triangular_priced(Book(6, 7, 100, 100, a),
                                  Book(4990, 5000, 100, 100, a),
                                  Book(1000, 1000, 10000, 10000, 0),
                                  NoPriceData, cex_name)
    \/ \E to_amount \in {None, 2000} :
          tri_verify_return_priced(to_amount)
    \/ Tick

LateSpec == AgedSpecInit /\ [][LateNext]_vars

\* ------------------------------------------------------------------------
\* The detection calls of an engine that has both Panora clients and an
\* executor, within one second of the wall clock
\* ------------------------------------------------------------------------
DetectSpecInit ==
    /\ ExecQuiet /\ ClockInit /\ ScanInit /\ ProcInit /\ StoreInit /\ ClientInit
    /\ skip_panora_verify \in BOOLEAN
    /\ panora_client = TRUE
    /\ panora_apt_client = TRUE
    /\ trade_executor = TRUE
    /\ last_verify = EmptyDict
    /\ epc = "idle"
    /\ echeck = NoCheck
    /\ verify_log = <<>>
    /\ last_dispatch = NoDispatch

DetectNext ==
    \/ \E cex_name \in CexNames : check_dex_cex(cex_name)
    \/ \E cex_name \in CexNames : check_triangular_apt_ami(cex_name)
    \/ verify_return
    \/ skip_quote_return

DetectSpec == DetectSpecInit /\ [][DetectNext]_vars

\* ------------------------------------------------------------------------
\* One Panora client shared by the readers (poller, engine) and by the
\* submitter, which is handed either nothing or the quote a reader got
\* ------------------------------------------------------------------------
PanoraSpecInit ==
    /\ dry_run = FALSE
    /\ panora_executor = TRUE
    /\ wallet_str \in BOOLEAN
    /\ ExecIdle /\ ClockInit /\ ScanInit /\ ProcInit /\ StoreInit /\ EngineInit /\ ClientInit

PanoraNext ==
    \/ \E r \in QuoteRequests : get_swap_quote(r[1], r[2])
    \/ \E c \in Callers : http_response(c)
    \/ \E c \in Callers : http_retry(c)
    \/ \E r \in SwapRequests,
          prefetched_quote \in {NoQuote, qcall["engine"].ret} :
            execute_swap(r[1], r[2], prefetched_quote)
    \/ swap_quote_return
    \/ swap_check_gas
    \/ swap_submit
    \/ Tick

PanoraSpec == PanoraSpecInit /\ [][PanoraNext]_vars

\* ------------------------------------------------------------------------
\* ArbitrageEngine.run: one pass of `while True` after the other, fed by a
\* store the feeds and the poller write to
\* ------------------------------------------------------------------------
\* self._sym_ami_usdt, the store key of the Panora AMI/USDT quote
sym_ami_usdt == "AMI_USDT"

\* the quotes the feeds and the poller write: Panora sells AMI at 70 or at
\* 99, the CEXes quote AMIUSDT and APTUSDT at 80 / 81
RunUpdates ==
    {<<"panora", sym_ami_usdt, 70, 70, 72, 72>>,
     <<"panora", sym_ami_usdt, 99, 99, 72, 72>>}
    \cup {<<exchange, symbol, 80, 81, 100, 100>> :
             exchange \in Exchanges, symbol \in Symbols}

\* the check shapes whose call sites stand in the loop body: the
\* _check_cex_cex and _check_dex_cex calls are comments
enabled_shapes == {"TRI"}

\* top of the loop body: the CEX quotes of cex_symbol are read
run_tick_start ==
    /\ scan.pc \in {"idle", "sleep"} /\ detection_awaited
    /\ scan' = [shape |-> "RUN", pc |-> "Bybit", evaluated |-> {},
                log |-> <<>>, tasks |-> <<>>]
    /\ UNCHANGED <<engineVars, now, nonEngineVars>>

\* `if self.enable_<cex>_arb and <cex> and <cex>_apt: await
\* self._check_triangular_apt_ami(...)` under `if self.enable_panora_arb and
\* self.panora_apt_client`; after the MEXC call the pass sleeps
run_tri(cex_name) ==
    /\ scan.shape = "RUN" /\ scan.pc = cex_name /\ detection_awaited
    /\ LET exchange == IF cex_name = "Bybit" THEN "bybit" ELSE "mexc"
           cex_ami == get_exchange("AMIUSDT", exchange)
           cex_apt == get_exchange("APTUSDT", exchange)
           next == IF cex_name = "Bybit" THEN "MEXC" ELSE "sleep"
       IN IF /\ "TRI" \in enabled_shapes /\ panora_apt_client
             /\ cex_ami # NoPriceData /\ cex_apt # NoPriceData
          THEN /\ \E in \in TriInputs :
                    /\ ~in[1] /\ ~in[2]
                    /\ check_triangular_apt_ami_with(
                           cex_name, is_stale(cex_ami), is_stale(cex_apt),
                           in[3], in[4], in[5], in[6])
               /\ scan' = [scan EXCEPT !.pc = next,
                                       !.evaluated = @ \cup {"TRI"}]
          ELSE /\ scan' = [scan EXCEPT !.pc = next]
               /\ UNCHANGED <<engineVars, now, nonEngineVars>>

RunSpecInit ==
    /\ ExecQuiet /\ ClockInit /\ ProcInit /\ StoreInit /\ ClientInit
    /\ ScanInit
    /\ skip_panora_verify = FALSE
    /\ panora_client = TRUE
    /\ panora_apt_client \in BOOLEAN
    /\ trade_executor = TRUE
    /\ last_verify = EmptyDict
    /\ epc = "idle"
    /\ echeck = NoCheck
    /\ verify_log = <<>>
    /\ last_dispatch = NoDispatch

RunNext ==
    \/ \E u \in RunUpdates : update(u[1], u[2], u[3], u[4], u[5], u[6])
    \/ run_tick_start
    \/ \E cex_name \in CexNames : run_tri(cex_name)
    \/ verify_return
    \/ Tick

RunSpec == RunSpecInit /\ [][RunNext]_vars

\* the store once both feeds have written AMIUSDT and APTUSDT at 80 / 81
BothCexStore ==
    update_of(update_of(update_of(update_of(EmptyDict,
        "bybit", "AMIUSDT", 80, 81, 100, 100),
        "bybit", "APTUSDT", 80, 81, 100, 100),
        "mexc", "AMIUSDT", 80, 81, 100, 100),
        "mexc", "APTUSDT", 80, 81, 100, 100)

\* the run loop entered after both feeds have delivered their quotes
SerialSpecInit ==
    /\ ExecQuiet /\ ClockInit /\ ProcInit /\ ClientInit /\ ScanInit
    /\ prices = BothCexStore
    /\ last_update = [exchange |-> "mexc", symbol |-> "APTUSDT",
                      bid |-> 80, ask |-> 81, bid_qty |-> 100, ask_qty |-> 100]
    /\ nupdates = 0
    /\ skip_panora_verify = FALSE
    /\ panora_client = TRUE
    /\ panora_apt_client = TRUE
    /\ trade_executor = TRUE
    /\ last_verify = EmptyDict
    /\ epc = "idle"
    /\ echeck = NoCheck
    /\ verify_log = <<>>
    /\ last_dispatch = NoDispatch

SerialNext ==
    \/ run_tick_start
    \/ \E cex_name \in CexNames : run_tri(cex_name)
    \/ verify_return
    \/ Tick

SerialSpec == SerialSpecInit /\ [][SerialNext]_vars

\* ------------------------------------------------------------------------
\* PanoraExecutor.execute_swap on quotes with any payload and wallets with
\* any balance
\* ------------------------------------------------------------------------
\* the wallet's APT balance in octas: query failed, empty, either side of
\* the floor of MIN_GAS_UNITS, either side of the cap of MAX_GAS_UNITS,
\* and 2 APT
GasBalances == {None, 0, 555555, 555556, 22222222, 22222223, 200000000}

SwapNext ==
    \/ \E payload \in Payloads :
         execute_swap("APT_AMI", 1000000, PayloadQuote(payload))
    \/ execute_swap("APT_AMI", 1000000, NoQuote)
    \/ \E payload \in Payloads, status \in {"200", "500"} :
         http_response_with("executor", status,
                            <<300, txdata_of(payload)>>)
    \/ swap_quote_return
    \/ \E apt_octas \in GasBalances : swap_check_gas_with(apt_octas)
    \/ swap_submit

SwapSpec == PanoraSpecInit /\ [][SwapNext]_vars

\* ------------------------------------------------------------------------
\* Triangular executions under fair scheduling: the step after the lock is
\* taken has no await, the balance reads of the dry-run branch end with
\* their HTTP timeouts, and each leg ends within _LEG_TIMEOUT_S
\* ------------------------------------------------------------------------
TriNext ==
    \E t \in Tasks :
        \/ execute_triangular(t)
        \/ execute_triangular_locked(t)
        \/ tri_dry_run(t)
        \/ tri_leg1(t)
        \/ tri_leg2(t)
        \/ task_done(t)

TriSpec ==
    /\ Init /\ [][TriNext]_vars
    /\ \A t \in Tasks :
         /\ WF_vars(execute_triangular_locked(t))
         /\ WF_vars(tri_dry_run(t))
         /\ WF_vars(tri_leg1(t))
         /\ WF_vars(tri_leg2(t))

\* ------------------------------------------------------------------------
\* The two caches of one client under reads of several amounts and 200
\* responses of several prices
\* ------------------------------------------------------------------------
\* <<toTokenAmount, txdata>> of the 200 responses: two prices, and a
\* response whose toTokenAmount is 0
UnitBodies == {<<300, "ok">>, <<450, "ok">>, <<0, "ok">>}

UnitNext ==
    \/ \E r \in QuoteRequests : get_swap_quote(r[1], r[2])
    \/ \E body \in UnitBodies : http_response_with("engine", "200", body)
    \/ Tick

UnitSpec == PanoraSpecInit /\ [][UnitNext]_vars

\* ------------------------------------------------------------------------
\* The poller on its client beside a CEX feed writing to the same store
\* ------------------------------------------------------------------------
PollSpecInit ==
    /\ dry_run = FALSE
    /\ panora_executor = TRUE
    /\ wallet_str = TRUE
    /\ ExecIdle /\ ClockInit /\ ScanInit /\ ProcInit /\ StoreInit /\ EngineInit /\ ClientInit

PollNext ==
    \/ \E from_to \in {"APT_AMI", "AMI_APT"} : get_swap_quote(from_to, 1000000)
    \/ \E status \in {"200", "500"}, body \in {<<300, "ok">>, <<0, "ok">>} :
          http_response_with("engine", status, body)
    \/ poll
    \/ update("bybit", "AMIUSDT", 80, 81, 100, 100)
    \/ Tick

PollSpec == PollSpecInit /\ [][PollNext]_vars

\* ------------------------------------------------------------------------
\* The retry loop of get_swap_quote under fair scheduling: a request sent
\* with ClientTimeout(total=10) is answered or times out, and a back-off
\* sleep ends
\* ------------------------------------------------------------------------
RetryNext ==
    \/ get_swap_quote("APT_AMI", 1000000)
    \/ \E c \in Callers : http_response(c)
    \/ \E c \in Callers : http_retry(c)
    \/ execute_swap("APT_AMI", 1000000, NoQuote)
    \/ swap_quote_return
    \/ Tick

RetrySpec ==
    /\ PanoraSpecInit
    /\ [][RetryNext]_vars
    /\ \A c \in Callers : WF_vars(http_response(c)) /\ WF_vars(http_retry(c))

\* ------------------------------------------------------------------------
\* One reader's quote requests answered with any status and any
\* Retry-After header
\* ------------------------------------------------------------------------
BackoffNext ==
    \/ get_swap_quote("APT_AMI", 1000000)
    \/ \E status \in HttpStatuses, body \in ResponseBodies,
          retry_after \in RetryAfterHeaders :
          http_response_hdr("engine", status, body, retry_after)
    \/ http_retry("engine")
    \/ Tick

BackoffSpec == PanoraSpecInit /\ [][BackoffNext]_vars

\* ------------------------------------------------------------------------
\* The exact-quote cache over the life of its entries
\* ------------------------------------------------------------------------
\* time.time() moves on by one second, for long enough that an entry
\* stored at the start grows older than 2 * TTL
cache_tick ==
    /\ now < StartTime + 2 * QUOTE_CACHE_TTL + MaxTicks
    /\ now' = now + 1
    /\ UNCHANGED <<execVars, storeVars, engineVars, clientVars, engine_cfg,
                   scan, procVars>>

\* 200 responses whose body parses: each one is stored
StoredBodies == {<<300, "ok">>, <<None, "none">>}

CacheNext ==
    \/ \E r \in QuoteRequests : get_swap_quote(r[1], r[2])
    \/ \E body \in StoredBodies : http_response_with("engine", "200", body)
    \/ cache_tick

CacheSpec == PanoraSpecInit /\ [][CacheNext]_vars

\* ========================================================================
\* Properties of the trade executor
\* ========================================================================
InTri(t) == pc[t] \in {"tri_locked", "tri_gate", "tri_leg1", "tri_leg2"}

TriSignalTypes == {"TRI_APT_TO_AMI", "TRI_AMI_TO_APT"}

CapNotional == trade_amount_usdt * QS

\* C1: at most one triangular execution holds the triangular lock at any
\* time, no task ever waits for the lock, and a triangular signal that
\* arrives while the lock is held returns False in the same step without
\* sending anything.
C1_TriLockDropsNotQueues ==
    /\ [](/\ Cardinality({t \in Tasks : InTri(t)}) <= 1
          /\ tri_waiters = <<>>
          /\ \A t \in Tasks : pc[t] # "tri_wait")
    /\ [][\A t \in Tasks :
            (/\ pc[t] = "idle"
             /\ call'[t].shape = "TRI"
             /\ \E u \in Tasks : InTri(u))
            => (/\ pc'[t] = "done"
                /\ result'[t] = "False"
                /\ legs'[t] = {}
                /\ tri_locked' = tri_locked)]_vars

C1_Witness ==
    \E t, u \in Tasks :
        /\ InTri(t)
        /\ pc[u] = "done" /\ call[u].exit = "skipped" /\ result[u] = "False"

\* C2: in live triangular execution the balance gate has run and passed
\* before leg 1 is attempted, so every leg that is sent (DEX swap or CEX
\* order) is preceded by a passed gate and with an insufficient balance
\* nothing is sent.
C2_LiveBalanceGateBeforeLeg1 ==
    \A t \in Tasks :
        (/\ ~dry_run /\ call[t].shape = "TRI"
         /\ (pc[t] \in {"tri_leg1", "tri_leg2"} \/ legs[t] # {}))
            => call[t].bal_check = "PASS"

\* C3: in live triangular execution a CEX order is placed only after the
\* DEX swap returned a transaction hash; after a failed or timed-out swap
\* the execution returns False with no CEX order.
C3_DexLegBeforeCexLeg ==
    \A t \in Tasks :
        call[t].shape = "TRI" =>
            /\ (pc[t] = "tri_leg2" \/ \E l \in legs[t] : l.kind = "cex")
                   => call[t].swap = "tx"
            /\ (call[t].swap \notin {"none", "tx"})
                   => (pc[t] = "done" /\ result[t] \in {"False", "raised"})

C3_Witness ==
    \E t \in Tasks :
        /\ call[t].shape = "TRI" /\ pc[t] = "done"
        /\ call[t].swap = "timeout_after_submit"
        /\ result[t] = "False"
        /\ \A l \in legs[t] : l.kind = "dex"

\* C4: no leg is sent with a notional above trade_amount_usdt, and when
\* execute_dex_cex caps the quantity (safe_qty < qty) the DEX swap that
\* reaches the chain is for the capped amount.
C4_NotionalCapPerLeg ==
    \A t \in Tasks : \A l \in legs[t] :
        /\ l.notional <= CapNotional
        /\ (call[t].shape = "DEX_CEX" /\ call[t].safe_qty < call[t].qty
            /\ l.kind = "dex")
               => l.qty = IF call[t].direction = "BUY_DEX_SELL_CEX"
                          THEN call[t].safe_qty * call[t].buy_price
                          ELSE call[t].safe_qty

\* C6: with dry_run set no shape sends a CEX order or an on-chain swap, no
\* task is ever at a point where it awaits one, and every execution that
\* returns True has emitted a signal record.
C6_DryRunSendsNothing ==
    dry_run =>
        \A t \in Tasks :
            /\ legs[t] = {}
            /\ pc[t] \notin {"cc_gather", "dc_gather", "tri_leg1", "tri_leg2"}
            /\ (result[t] = "True") => (signals[t].type # "none")
            /\ (signals[t].type # "none") => signals[t].dry_run

C6_Witness ==
    /\ dry_run
    /\ \E t, u \in Tasks :
        /\ signals[t].type \in {"CEX_CEX", "DEX_CEX"} /\ result[t] = "True"
        /\ signals[u].type \in TriSignalTypes /\ result[u] = "True"

\* C7: a dry-run triangular execution runs the balance check, records its
\* outcome as balance_gate PASS or FAIL in the signal, sends nothing and
\* returns True whatever the outcome; a wallet balance read below the
\* required input amount, or a CEX balance below the hedge amount, is
\* recorded as FAIL.
C7_DryRunTriGateRecorded ==
    \A t \in Tasks :
        signals[t].type \in TriSignalTypes =>
            /\ result[t] = "True"
            /\ legs[t] = {}
            /\ signals[t].balance_gate \in {"PASS", "FAIL"}
            /\ signals[t].balance_gate = call[t].bal_check
            /\ (wallet_str /\ call[t].wallet_bal # None
                /\ call[t].wallet_bal < call[t].safe_qty)
                   => signals[t].balance_gate = "FAIL"
            /\ (call[t].cex_bal < call[t].hedge_qty)
                   => signals[t].balance_gate = "FAIL"

\* wallet APT 0.1 with 1.5 required
C7_Witness ==
    \E t \in Tasks :
        /\ signals[t].type = "TRI_APT_TO_AMI"
        /\ call[t].wallet_bal = 100000 /\ call[t].safe_qty = 1500000
        /\ signals[t].balance_gate = "FAIL"
        /\ result[t] = "True" /\ legs[t] = {}

\* ========================================================================
\* Properties of the price store
\* ========================================================================
\* C9: an update with bid > 0 and ask > 0 is what get / get_exchange return
\* for its (symbol, exchange) from then on, every other key keeping its
\* entry; an update with bid <= 0 or ask <= 0 leaves the store unchanged (no
\* entry created, an earlier quote kept); no stored quote has a non-positive
\* bid or ask.
C9_UpdateObservableUnlessInvalid ==
    /\ [](\A s \in Symbols, e \in Exchanges :
            /\ get_exchange(s, e) # NoPriceData
                   => (get_exchange(s, e).bid > 0 /\ get_exchange(s, e).ask > 0)
            /\ (s \in DOMAIN prices /\ e \in DOMAIN prices[s])
                   <=> get_exchange(s, e) # NoPriceData)
    /\ [][IF nupdates' = nupdates THEN prices' = prices
          ELSE LET u == last_update' IN
               IF u.bid > 0 /\ u.ask > 0
               THEN /\ get_exchange_of(prices', u.symbol, u.exchange) =
                          PriceData(u.bid, u.ask, u.bid_qty, u.ask_qty)
                    /\ get_of(prices', u.symbol)[u.exchange] =
                          PriceData(u.bid, u.ask, u.bid_qty, u.ask_qty)
                    /\ \A s \in Symbols, e \in Exchanges :
                          <<s, e>> # <<u.symbol, u.exchange>>
                              => get_exchange_of(prices', s, e) =
                                     get_exchange(s, e)
               ELSE prices' = prices]_vars

\* a rejected update on a key that holds an earlier quote
C9_Witness ==
    /\ nupdates >= 2
    /\ last_update.bid > 0 /\ last_update.ask <= 0
    /\ get_exchange(last_update.symbol, last_update.exchange) # NoPriceData
    /\ get_exchange(last_update.symbol, last_update.exchange).ask > 0
    /\ \E s \in Symbols : s \notin DOMAIN prices

\* ========================================================================
\* Properties of the engine
\* ========================================================================
\* C5: two verification calls issued for the same direction key are at
\* least VERIFY_COOLDOWN_S apart, and a detection call that finds a
\* profitable direction inside its cooldown returns without issuing a
\* verification call.
C5_VerifyCooldownPerDirection ==
    /\ [](\A i, j \in 1..Len(verify_log) :
            (i < j /\ verify_log[i].key = verify_log[j].key)
                => verify_log[j].at - verify_log[i].at >= VERIFY_COOLDOWN_S)
    /\ [][echeck'.exit = "cooldown" => verify_log' = verify_log]_vars

\* a direction verified, seen again one second before the cooldown ends and
\* skipped, then verified again once the cooldown is over
C5_Witness ==
    /\ Len(verify_log) >= 2
    /\ verify_log[1].key = verify_log[2].key
    /\ verify_log[2].at - verify_log[1].at = VERIFY_COOLDOWN_S
    /\ echeck.exit = "cooldown"
    /\ now - verify_log[2].at < VERIFY_COOLDOWN_S
    /\ echeck.shape = "TRI"

\* ========================================================================
\* Properties of the Panora client and submitter
\* ========================================================================
\* C8: execute_swap never builds a transaction from a synthetic quote.  A
\* prefetched quote is the quote of the swap exactly when it is present and
\* not synthetic; in every other case that reaches the quote step the quote
\* comes from a get_swap_quote call with force_fresh set, and such a call
\* is never served by the exact-quote or the unit-price cache: it counts one
\* request, no cache hit, and sends an HTTP request, whatever the caches
\* hold.
C8_SwapNeverBuiltFromSynthetic ==
    /\ [](/\ swap.built => swap.quote.kind = "real"
          /\ swap.quote_src = "prefetched"
                <=> (/\ swap.pc # "idle"
                     /\ wallet_str
                     /\ swap.prefetched_quote.kind \notin {"none", "synthetic"})
          /\ swap.quote_src = "prefetched"
                => swap.quote = swap.prefetched_quote
          /\ swap.quote_src = "fetched"
                => /\ qcall["executor"].force_fresh
                   /\ qcall["executor"].src = "http"
                   /\ qcall["executor"].dir = swap.dir
                   /\ qcall["executor"].amount = swap.from_amount
                   /\ swap.pc \notin {"idle", "quote"}
                         => swap.quote = qcall["executor"].ret
          /\ \A c \in Callers :
                qcall[c].force_fresh => qcall[c].src = "http")
    /\ [][(swap'.pc = "quote" /\ swap.pc # "quote")
             => /\ total_requests' = total_requests + 1
                /\ cache_hits' = cache_hits
                /\ qcall'["executor"].pc = "http"
                /\ qcall'["executor"].force_fresh]_vars

\* a swap called with a synthetic prefetched quote while the unit-price and
\* exact-quote caches were fresh fetched a real quote, built its
\* transaction from it and submitted it
C8_Witness ==
    /\ swap.prefetched_quote.kind = "synthetic"
    /\ swap.quote_src = "fetched"
    /\ swap.built
    /\ swap.quote.kind = "real"
    /\ swap.ret = "tx"
    /\ qcall["executor"].unit_age # None
    /\ qcall["executor"].unit_age < QUOTE_CACHE_TTL
    /\ qcall["executor"].exact_age # None
    /\ qcall["executor"].exact_age < QUOTE_CACHE_TTL

\* C10 (as stated): a quote is synthesized only from a unit-price entry
\* younger than TTL, and a non-forced call made when the unit-price entry of
\* its direction has reached the age TTL goes to an HTTP request.
C10_StaleUnitPriceGoesToHttp ==
    \A c \in Callers :
        /\ qcall[c].src = "unit_price_cache"
              => (qcall[c].unit_age # None
                  /\ qcall[c].unit_age < QUOTE_CACHE_TTL)
        /\ (~qcall[c].force_fresh /\ qcall[c].unit_age >= QUOTE_CACHE_TTL)
              => qcall[c].src = "http"

\* C10 (amended): a quote is synthesized only from a unit-price entry
\* younger than TTL; a non-forced call made when the unit-price entry of its
\* direction has reached the age TTL never returns a synthetic quote: it
\* goes to an HTTP request unless the exact-quote cache holds an entry
\* younger than TTL for the requested amount, which it then returns.
C10_StaleUnitPriceNeverSynthesized ==
    \A c \in Callers :
        /\ qcall[c].src = "unit_price_cache"
              => (/\ qcall[c].unit_age # None
                  /\ qcall[c].unit_age < QUOTE_CACHE_TTL
                  /\ qcall[c].ret.kind = "synthetic")
        /\ qcall[c].ret.kind = "synthetic" => qcall[c].src = "unit_price_cache"
        /\ (~qcall[c].force_fresh /\ qcall[c].unit_age >= QUOTE_CACHE_TTL)
              => \/ qcall[c].src = "http"
                 \/ /\ qcall[c].src = "exact_cache"
                    /\ qcall[c].exact_age # None
                    /\ qcall[c].exact_age < QUOTE_CACHE_TTL
                    /\ qcall[c].ret.kind = "real"

\* a non-forced call found the unit-price entry of its direction exactly
\* TTL old, no exact entry, and sent an HTTP request
C10_Witness ==
    /\ ~qcall["engine"].force_fresh
    /\ qcall["engine"].unit_age = QUOTE_CACHE_TTL
    /\ qcall["engine"].exact_age = None
    /\ qcall["engine"].src = "http"
    /\ qcall["engine"].pc = "http"


\* ------------------------------------------------------------------------
\* BybitWS.connect (exchanges/bybit.py): the streaming feed task
\* ------------------------------------------------------------------------
MAX_RECONNECT_DELAY == 60

\* what websockets.connect can raise: refused or reset socket, handshake
\* rejected, open_timeout elapsed
ConnectErrors == {"OSError", "InvalidStatus", "TimeoutError"}
\* what ws.send can raise
SendErrors == {"ConnectionClosed"}
\* what one turn of `async for raw in ws` can bring: an order-book message,
\* a message without "data", a book with an empty side, a text json.loads
\* rejects, a price float() rejects, the stream closed with an error, the
\* stream closed normally (the iteration just ends)
Arrivals == {"book", "no_data", "empty_book", "JSONDecodeError",
             "ValueError", "ConnectionClosed", "closed_ok"}
FeedErrors == ConnectErrors \cup SendErrors
                  \cup {"JSONDecodeError", "ValueError", "ConnectionClosed"}

\* a handler pair that catches the stream close only
caught_closed_only(error) == error = "ConnectionClosed"

\* `except websockets.ConnectionClosed` / `except Exception`: every error
\* of the connection attempt is caught inside the `while True` body
caught(error) == error \in FeedErrors

\* an exception raised inside the try block: caught, the task goes on to the
\* sleep; not caught, it leaves connect() and the task is over
FeedRaise(error) ==
    feed' = [feed EXCEPT !.pc = IF caught(error) THEN "backoff" ELSE "ended",
                         !.error = error]

\* connect() up to the first pass of the loop: reconnect_delay = 1
feed_start ==
    /\ feed.pc = "idle"
    /\ feed' = [feed EXCEPT !.pc = "connecting", !.reconnect_delay = 1]
    /\ UNCHANGED <<execVars, now, storeVars, engineVars, clientVars,
                   engine_cfg, scan, main_pc>>

\* `async with websockets.connect(...) as ws`: on success the delay is
\* reset to 1
feed_connect ==
    /\ feed.pc = "connecting"
    /\ \E outcome \in {"ok"} \cup ConnectErrors :
         IF outcome = "ok"
         THEN feed' = [feed EXCEPT !.pc = "subscribed", !.reconnect_delay = 1]
         ELSE FeedRaise(outcome)
    /\ UNCHANGED <<execVars, now, storeVars, engineVars, clientVars,
                   engine_cfg, scan, main_pc>>

\* await ws.send(subscribe message)
feed_subscribe ==
    /\ feed.pc = "subscribed"
    /\ \E outcome \in {"ok"} \cup SendErrors :
         IF outcome = "ok"
         THEN feed' = [feed EXCEPT !.pc = "receiving"]
         ELSE FeedRaise(outcome)
    /\ UNCHANGED <<execVars, now, storeVars, engineVars, clientVars,
                   engine_cfg, scan, main_pc>>

\* one order-book message of the stream: collector.update("bybit", ...)
feed_book ==
    /\ feed.pc = "receiving"
    /\ \E symbol \in Symbols, bid \in StoreBids, ask \in StoreAsks,
          q \in StoreQtys :
         update("bybit", symbol, bid, ask, q[1], q[2])

\* any other turn of `async for raw in ws`
feed_receive ==
    /\ feed.pc = "receiving"
    /\ \E arrival \in Arrivals \ {"book"} :
         IF arrival \in {"no_data", "empty_book"}
         THEN feed' = [feed EXCEPT !.error = "none"]
         ELSE IF arrival = "closed_ok"
         THEN feed' = [feed EXCEPT !.pc = "backoff", !.error = "closed_ok"]
         ELSE FeedRaise(arrival)
    /\ UNCHANGED <<execVars, now, storeVars, engineVars, clientVars,
                   engine_cfg, scan, main_pc>>

\* a delay that stays what it is
next_reconnect_delay_same(reconnect_delay) == reconnect_delay

\* `reconnect_delay = min(reconnect_delay * 2, MAX_RECONNECT_DELAY)`
next_reconnect_delay(reconnect_delay) ==
    Min(reconnect_delay * 2, MAX_RECONNECT_DELAY)

\* await asyncio.sleep(reconnect_delay) is over; the delay doubles up to
\* MAX_RECONNECT_DELAY and the loop starts its next pass
feed_sleep_done ==
    /\ feed.pc = "backoff"
    /\ feed' = [feed EXCEPT !.pc = "connecting",
                            !.reconnect_delay =
                                next_reconnect_delay(feed.reconnect_delay)]
    /\ UNCHANGED <<execVars, now, storeVars, engineVars, clientVars,
                   engine_cfg, scan, main_pc>>

FeedSpecInit ==
    ExecQuiet /\ ClockInit /\ ScanInit /\ ProcInit /\ StoreInit /\ EngineInit /\ ClientInit

FeedNext ==
    \/ feed_start
    \/ feed_connect
    \/ feed_subscribe
    \/ feed_book
    \/ feed_receive
    \/ feed_sleep_done

\* asyncio.sleep returns after its delay, and websockets.connect returns or
\* raises within open_timeout
FeedSpec ==
    /\ FeedSpecInit /\ [][FeedNext]_vars
    /\ WF_vars(feed_sleep_done) /\ WF_vars(feed_connect)

\* ------------------------------------------------------------------------
\* MexcWS.connect (exchanges/mexc.py): every poll cycle gathers one
\* _poll_symbol per symbol, then sleeps mexc_poll_interval.  In this
\* specification `feed` holds the state of that task.
\* ------------------------------------------------------------------------
MaxCycles == 3

\* how the request of one _poll_symbol ends: a 200 with a well-formed body,
\* another status, aiohttp.ClientError, asyncio.TimeoutError, KeyError or
\* ValueError from the body, or any other Exception (float(None))
MexcOutcomes == {"ok", "status", "client_error", "timeout", "parse_error",
                 "unexpected"}

NoMexc == [pc |-> "start", cycle |-> 0,
           poll |-> [symbol \in Symbols |-> "idle"],
           error |-> [symbol \in Symbols |-> "none"],
           logged |-> 0]

\* except clauses that stop at the network errors
poll_symbol_caught_network_only(error) == error \in {"client_error", "timeout"}

\* the except clauses of _poll_symbol: the last one is `except Exception`
poll_symbol_caught(error) ==
    error \in {"client_error", "timeout", "parse_error", "unexpected"}

\* `await asyncio.gather(*[self._poll_symbol(session, s) ...])` starts: the
\* first pass of the loop, or the pass after asyncio.sleep returned
mexc_gather ==
    /\ feed.pc \in {"start", "sleep"}
    /\ feed.cycle < MaxCycles
    /\ feed' = [feed EXCEPT !.pc = "gather", !.cycle = @ + 1,
                            !.poll = [symbol \in Symbols |-> "http"],
                            !.error = [symbol \in Symbols |-> "none"]]
    /\ UNCHANGED <<execVars, now, storeVars, engineVars, clientVars,
                   engine_cfg, scan, main_pc>>

\* _poll_symbol(session, symbol) from the answer to its request to its end
poll_symbol_with(symbol, outcome) ==
    /\ feed.pc = "gather"
    /\ feed.poll[symbol] = "http"
    /\ IF outcome = "ok"
       THEN /\ feed' = [feed EXCEPT !.poll[symbol] = "done"]
            /\ prices' = update_of(prices, "mexc", symbol, 80, 81, 100, 100)
            /\ last_update' = [exchange |-> "mexc", symbol |-> symbol,
                               bid |-> 80, ask |-> 81,
                               bid_qty |-> 100, ask_qty |-> 100]
            /\ nupdates' = nupdates + 1
       ELSE /\ IF outcome = "status" \/ poll_symbol_caught(outcome)
               THEN feed' = [feed EXCEPT !.poll[symbol] = "done",
                                         !.error[symbol] = outcome,
                                         !.logged = @ + 1]
               ELSE feed' = [feed EXCEPT !.pc = "raised",
                                         !.poll[symbol] = "raised",
                                         !.error[symbol] = outcome]
            /\ UNCHANGED storeVars
    /\ UNCHANGED <<execVars, now, engineVars, clientVars, engine_cfg, scan,
                   main_pc>>

poll_symbol(symbol) ==
    \E outcome \in MexcOutcomes : poll_symbol_with(symbol, outcome)

\* gather returns when every _poll_symbol has returned;
\* `await asyncio.sleep(settings.mexc_poll_interval)` starts
mexc_sleep ==
    /\ feed.pc = "gather"
    /\ \A symbol \in Symbols : feed.poll[symbol] = "done"
    /\ feed' = [feed EXCEPT !.pc = "sleep"]
    /\ UNCHANGED <<execVars, now, storeVars, engineVars, clientVars,
                   engine_cfg, scan, main_pc>>

MexcSpecInit ==
    /\ ExecQuiet /\ ClockInit /\ ScanInit /\ StoreInit /\ EngineInit /\ ClientInit
    /\ main_pc = "running"
    /\ feed = NoMexc

MexcNext ==
    \/ mexc_gather
    \/ \E symbol \in Symbols : poll_symbol(symbol)
    \/ mexc_sleep

\* the session's ClientTimeout(total=5) ends every request, and
\* asyncio.sleep returns after its delay
MexcSpec ==
    /\ MexcSpecInit /\ [][MexcNext]_vars
    /\ WF_vars(mexc_gather) /\ WF_vars(mexc_sleep)
    /\ \A symbol \in Symbols : WF_vars(poll_symbol(symbol))

\* C11: a get_swap_quote call without force_fresh returns the exact-quote
\* entry of its key when that entry is younger than TTL; otherwise, when the
\* unit-price entry of its direction is younger than TTL, a synthetic quote
\* of price * amount; it sends an HTTP request only when neither is fresh.
\* A cache hit sends nothing, adds one to the cache-hit counter and leaves
\* the request counter unchanged; a miss adds one to the request counter
\* and leaves the cache-hit counter unchanged.
C11_CacheLookupOrder ==
    [][\A r \in QuoteRequests :
          get_swap_quote(r[1], r[2]) =>
            LET key == cache_key(r[1], r[2])
                exact_fresh == /\ key \in DOMAIN quote_cache
                               /\ now - quote_cache[key].at < QUOTE_CACHE_TTL
                unit_fresh == /\ r[1] \in DOMAIN unit_price_cache
                              /\ now - unit_price_cache[r[1]].at
                                    < QUOTE_CACHE_TTL
                q == qcall'["engine"]
            IN /\ ~q.force_fresh
               /\ IF exact_fresh
                  THEN /\ q.pc = "done" /\ q.src = "exact_cache"
                       /\ q.ret = quote_cache[key].quote
                       /\ cache_hits' = cache_hits + 1
                       /\ total_requests' = total_requests
                  ELSE IF unit_fresh
                  THEN /\ q.pc = "done" /\ q.src = "unit_price_cache"
                       /\ q.ret.kind = "synthetic"
                       /\ q.ret.txdata = "none"
                       /\ q.ret.to_amount =
                            (unit_price_cache[r[1]].to_amount * r[2])
                               \div unit_price_cache[r[1]].from_amount
                       /\ cache_hits' = cache_hits + 1
                       /\ total_requests' = total_requests
                  ELSE /\ q.pc = "http" /\ q.src = "http"
                       /\ total_requests' = total_requests + 1
                       /\ cache_hits' = cache_hits
               /\ quote_cache' = quote_cache
               /\ unit_price_cache' = unit_price_cache]_vars

\* one request went to HTTP, then one call was served by the exact cache
\* and one, for another amount of the same direction, by the unit-price
\* cache while the exact cache held a fresh entry under another key
C11_Witness ==
    /\ total_requests = 1
    /\ cache_hits = 2
    /\ qcall["engine"].pc = "done"
    /\ qcall["engine"].src = "unit_price_cache"
    /\ qcall["engine"].exact_age = None
    /\ \E k \in DOMAIN quote_cache :
          k[1] = qcall["engine"].dir /\ now - quote_cache[k].at < QUOTE_CACHE_TTL

C16_CexCexBothOrNothing ==
    /\ [][\A t \in Tasks :
            \A ob \in OrderOutcomes \ {"timeout"},
               os \in OrderOutcomes \ {"timeout"} :
              cex_cex_gather_with(t, ob, os) =>
                LET qty == call[t].safe_qty
                    buy_id == cex_qty(qty) > 0 /\ ob = "order_id"
                    sell_id == cex_qty(qty) > 0 /\ os = "order_id"
                IN /\ ~dry_run /\ legs[t] = {}
                   /\ result'[t] = "True" <=> (buy_id /\ sell_id)
                   /\ result'[t] = "False" <=> ~(buy_id /\ sell_id)
                   /\ pc'[t] = "done"
                   /\ legs'[t] \subseteq
                        {CexLeg("buy", qty, call[t].buy_price),
                         CexLeg("sell", qty, call[t].sell_price)}
                   /\ (buy_id /\ sell_id) => Cardinality(legs'[t]) = 2]_vars
    /\ [][\A t \in Tasks :
            (call[t].shape = "CEX_CEX" /\ pc[t] = "done"
               /\ call'[t].shape = "CEX_CEX")
              => legs'[t] = legs[t] /\ result'[t] = result[t]]_vars

\* a live two-CEX execution of which one order was filled and the other
\* sent and rejected: it returned False with the two orders of the gather
\* and is done
C16_Witness ==
    \E t \in Tasks :
        /\ ~dry_run
        /\ call[t].shape = "CEX_CEX" /\ pc[t] = "done"
        /\ call[t].exit = "partial"
        /\ result[t] = "False"
        /\ Cardinality(legs[t]) = 2

\* C19: no error of a single opportunity ends the engine loop: whatever a
\* verification call or a skip-verify quote fetch comes back with, the
\* engine coroutine is still running, in a check or between two checks.
C19_EngineLoopNeverEnds ==
    /\ epc # "crashed"
    /\ echeck.exit # "raised"

\* C14 as stated: when any quote a DEX-CEX or triangular check needs is
\* stale (a CEX quote, the Panora quote of the DEX-CEX check, or either
\* Panora quote of the triangular check), the check ends at once: no
\* verification call, no await on a quote, no execution dispatched.
C14_StaleSlotAbortsCheck ==
    [][/\ \A in \in DexCexInputs :
            (check_dex_cex_with(echeck'.cex_name, in[1], in[2], in[3], in[4])
               /\ (in[1] \/ in[2]))
              => /\ epc' = "idle" /\ echeck'.exit = "stale"
                 /\ verify_log' = verify_log
                 /\ last_dispatch' = last_dispatch
       /\ \A in \in TriInputs :
            (check_triangular_apt_ami_with(echeck'.cex_name, in[1], in[2],
                                           in[3], in[4], in[5], in[6])
               /\ (in[1] \/ in[2] \/ in[3] \/ in[4]))
              => /\ epc' = "idle"
                 /\ verify_log' = verify_log
                 /\ last_dispatch' = last_dispatch]_vars

\* C14, amended: a stale Panora or CEX quote ends the DEX-CEX check at
\* once, and a stale CEX quote ends the triangular check at once: no
\* verification call, no await on a quote, no execution dispatched.  A
\* stale Panora quote in the triangular check silences only the direction
\* that uses it: that direction makes no verification call and no quote
\* fetch, while the other direction is still evaluated.
C14_StaleSlotAbortsItsDirection ==
    [][/\ \A in \in DexCexInputs :
            (check_dex_cex_with(echeck'.cex_name, in[1], in[2], in[3], in[4])
               /\ (in[1] \/ in[2]))
              => /\ epc' = "idle" /\ echeck'.exit = "stale"
                 /\ verify_log' = verify_log
                 /\ last_verify' = last_verify
                 /\ last_dispatch' = last_dispatch
       /\ \A in \in TriInputs :
            check_triangular_apt_ami_with(echeck'.cex_name, in[1], in[2],
                                          in[3], in[4], in[5], in[6])
              => LET key(dir) == vkey("TRI", dir, echeck'.cex_name)
                     called(dir) ==
                        \E i \in DOMAIN verify_log' \ DOMAIN verify_log :
                            verify_log'[i].key = key(dir)
                 IN /\ (in[1] \/ in[2]) =>
                          /\ epc' = "idle" /\ echeck'.exit = "stale"
                          /\ verify_log' = verify_log
                          /\ last_verify' = last_verify
                    /\ in[3] => epc' \notin {"d1_verify", "d1_skip"}
                                  /\ ~called(1)
                    /\ in[4] => epc' \notin {"d2_verify", "d2_skip"}
                                  /\ ~called(2)
                    /\ (in[3] /\ in[4]) =>
                          epc' = "idle" /\ verify_log' = verify_log
                    /\ last_dispatch' = last_dispatch]_vars

\* a triangular check that found a CEX quote stale has ended with nothing
\* verified while the engine holds a client and goes on
C14_Witness ==
    /\ echeck.shape = "TRI" /\ echeck.exit = "stale"
    /\ epc = "idle"
    /\ panora_apt_client
    /\ Len(verify_log) = 1
    /\ verify_log[1].key[1] = "DEX_BUY"
    /\ last_dispatch.shape = "DEX_CEX"

\* C17: two HTTP requests of one client are never sent less than
\* panora_api_min_interval apart: of two requests in flight together, one
\* was sent at least that long after the other.
C17_MinRequestSpacing ==
    \A c1 \in Callers, c2 \in Callers :
        (c1 # c2 /\ qcall[c1].pc = "http" /\ qcall[c2].pc = "http"
           /\ qcall[c1].sent_at <= qcall[c2].sent_at)
          => qcall[c2].sent_at - qcall[c1].sent_at >= panora_api_min_interval

\* C15: the two-CEX check handed fresh quotes takes, per direction, the
\* quantity min(ask_qty of the buy side, bid_qty of the sell side), skips
\* the direction when that is zero, and logs a detection if and only if
\* sell_vol - buy_vol - buy_vol * buy_fee - sell_vol * sell_fee exceeds the
\* threshold; each detection is handed to the executor when there is one.
\* Stale quotes give no detection.
C15_CexCexDetection ==
    scan.shape = "CEX_CEX" =>
      LET fresh == /\ now - scan.bybit.timestamp <= STALE_MAX_AGE
                   /\ now - scan.mexc.timestamp <= STALE_MAX_AGE
          qty(buy, sell) == IF buy.ask_qty < sell.bid_qty THEN buy.ask_qty
                            ELSE sell.bid_qty
          profit(buy, sell, buy_fee, sell_fee) ==
              (sell.bid * qty(buy, sell) - buy.ask * qty(buy, sell)) * FEE_SCALE
              - buy.ask * qty(buy, sell) * buy_fee
              - sell.bid * qty(buy, sell) * sell_fee
          detects(buy, sell, buy_fee, sell_fee) ==
              /\ fresh /\ qty(buy, sell) > 0
              /\ profit(buy, sell, buy_fee, sell_fee)
                    > engine_cfg.min_profit * FEE_SCALE
          d1 == detects(scan.bybit, scan.mexc,
                        engine_cfg.bybit_fee, engine_cfg.mexc_fee)
          d2 == detects(scan.mexc, scan.bybit,
                        engine_cfg.mexc_fee, engine_cfg.bybit_fee)
          logged(b, s) == {i \in DOMAIN scan.log :
                              /\ scan.log[i].buy_exchange = b
                              /\ scan.log[i].sell_exchange = s}
      IN /\ Cardinality(logged("Bybit", "MEXC")) = (IF d1 THEN 1 ELSE 0)
         /\ Cardinality(logged("MEXC", "Bybit")) = (IF d2 THEN 1 ELSE 0)
         /\ Len(scan.log) = (IF d1 THEN 1 ELSE 0) + (IF d2 THEN 1 ELSE 0)
         /\ \A i \in logged("Bybit", "MEXC") :
               /\ scan.log[i].qty = qty(scan.bybit, scan.mexc)
               /\ scan.log[i].profit =
                     profit(scan.bybit, scan.mexc,
                            engine_cfg.bybit_fee, engine_cfg.mexc_fee)
               /\ scan.log[i].buy_price = scan.bybit.ask
               /\ scan.log[i].sell_price = scan.mexc.bid
         /\ \A i \in logged("MEXC", "Bybit") :
               /\ scan.log[i].qty = qty(scan.mexc, scan.bybit)
               /\ scan.log[i].profit =
                     profit(scan.mexc, scan.bybit,
                            engine_cfg.mexc_fee, engine_cfg.bybit_fee)
         /\ scan.tasks = IF trade_executor THEN scan.log ELSE <<>>

\* Bybit ask 100 for 2 coins, MEXC bid 102 for 3, zero fees, zero
\* threshold: exactly one detection, buy Bybit and sell MEXC, quantity 2,
\* profit 4
C15_Witness ==
    /\ engine_cfg = ZeroCfg
    /\ scan.shape = "CEX_CEX"
    /\ scan.bybit = Book(99, 100, 2, 2, 0)
    /\ scan.mexc = Book(102, 101, 3, 3, 0)
    /\ scan.log = <<Opportunity("Bybit", "MEXC", 100, 102, 2, 4 * FEE_SCALE)>>

\* C13: in a DEX-CEX check with verification enabled, an execution of a
\* direction is dispatched if and only if the verification call of that
\* direction returned a quote with a positive amount and the profit
\* recomputed from that amount exceeds min_profit_threshold (given an
\* executor); otherwise nothing is dispatched for that direction by that
\* check.  The execution is dispatched at the verified price and quantity.
C13_DispatchOnlyOnVerifiedProfit ==
    scan.shape = "DEX_CEX" =>
      LET fee == IF scan.cex_name = "Bybit" THEN engine_cfg.bybit_fee
                 ELSE engine_cfg.mexc_fee
          min1(a, b) == IF a < b THEN a ELSE b
          qty(dir) == IF dir = 1
                      THEN min1(scan.panora.ask_qty, scan.cex.bid_qty)
                      ELSE min1(scan.cex.ask_qty, scan.panora.bid_qty)
          \* net profit times FEE_SCALE of buying for buy_vol USDT and
          \* selling for sell_vol USDT
          net(buy_vol, sell_vol, buy_fee, sell_fee) ==
              (sell_vol - buy_vol) * FEE_SCALE
                 - buy_vol * buy_fee - sell_vol * sell_fee
          recomputed(r) ==
              IF r.dir = 1
              THEN net(((qty(1) * scan.panora.ask) \div r.to_amount)
                          * r.to_amount,
                       r.to_amount * scan.cex.bid,
                       engine_cfg.panora_fee, fee)
              ELSE net(qty(2) * scan.cex.ask,
                       (r.to_amount \div qty(2)) * qty(2),
                       fee, engine_cfg.panora_fee)
          passes(r) == /\ r.to_amount # None /\ r.to_amount > 0
                       /\ recomputed(r) > engine_cfg.min_profit * FEE_SCALE
          name(dir) == IF dir = 1 THEN "BUY_DEX_SELL_CEX"
                       ELSE "BUY_CEX_SELL_DEX"
          dispatched(dir) == {j \in DOMAIN scan.tasks :
                                 scan.tasks[j].direction = name(dir)}
          verified(dir) == {i \in DOMAIN scan.log : scan.log[i].dir = dir}
      IN /\ ~skip_panora_verify
         /\ \A dir \in {1, 2} :
               /\ Cardinality(verified(dir)) <= 1
               /\ Cardinality(dispatched(dir)) <= 1
               /\ dispatched(dir) # {} <=>
                     /\ trade_executor
                     /\ \E i \in verified(dir) : passes(scan.log[i])
               /\ \A i \in verified(dir) :
                     scan.log[i].outcome = "profit" <=> passes(scan.log[i])
         /\ \A j \in dispatched(1) :
               /\ scan.tasks[j].qty = scan.log[CHOOSE i \in verified(1) : TRUE].to_amount
               /\ scan.tasks[j].sell_price = scan.cex.bid
         /\ \A j \in dispatched(2) :
               /\ scan.tasks[j].qty = qty(2)
               /\ scan.tasks[j].buy_price = scan.cex.ask
         /\ scan.tasks # <<>> => last_dispatch.shape = "DEX_CEX"

\* the store says Panora sells AMI at 70 and the CEX bids 80; the
\* verification quote gives 56 AMI for 72 * 70 USDT, a price of 90: the
\* direction is cancelled and nothing is dispatched
C13_Witness ==
    /\ scan.shape = "DEX_CEX"
    /\ scan.panora.ask = 70 /\ scan.cex.bid = 80
    /\ trade_executor
    /\ scan.log = <<[dir |-> 1, to_amount |-> 56, outcome |-> "canceled"]>>
    /\ scan.tasks = <<>>
    /\ last_dispatch = NoDispatch

\* C18: on a shutdown signal the feed tasks and the engine loop are
\* cancelled, while an execution task that is mid-flight is allowed to finish
\* before the process exits: once main() has been left, no execution was
\* ended by a cancellation at one of its awaits.
C18_MidFlightExecutionFinishes ==
    /\ main_pc \in {"closing", "exited"} =>
          feed.pc = "cancelled" /\ epc = "cancelled"
    /\ main_pc = "exited" =>
          \A t \in Tasks : ~mid_flight(t) /\ result[t] # "cancelled"

\* C20: the streaming feed has no terminal state: a stream close, a message
\* parse failure or any other error ends only the current connection
\* attempt; the task goes to its disconnected pause and from there always
\* attempts a new connection.
C20_FeedNeverEnds ==
    /\ [](feed.pc \in {"idle", "connecting", "subscribed", "receiving",
                       "backoff"})
    /\ [][/\ feed.pc \in {"connecting", "subscribed", "receiving"}
          /\ feed'.pc \notin {"subscribed", "receiving"}
          => feed'.pc = "backoff" /\ feed'.error # "none"]_vars
    /\ (feed.pc = "backoff" ~> feed.pc = "connecting")

\* C20 witness: the feed is connecting again after a message that failed
\* to parse, with the delay doubled
C20_Witness ==
    /\ feed.pc = "connecting"
    /\ feed.error = "JSONDecodeError"
    /\ feed.reconnect_delay = 2

\* C21 as stated: once a real response has filled the unit-price cache of a
\* direction, every later read of that direction made while the entry is
\* fresh returns a synthetic quote of (b / a) * a'.
C21_EveryFreshReadIsSynthetic ==
    [][\A r \in QuoteRequests :
          (/\ get_swap_quote(r[1], r[2])
           /\ r[1] \in DOMAIN unit_price_cache
           /\ is_fresh(unit_price_cache[r[1]].at))
          => /\ qcall'["engine"].ret.kind = "synthetic"
             /\ qcall'["engine"].ret.to_amount =
                  (unit_price_cache[r[1]].to_amount * r[2])
                     \div unit_price_cache[r[1]].from_amount]_vars

\* C21: a real response for a direction with fromAmount a and toAmount
\* b > 0 leaves b / a in the unit-price cache of the direction; a later read
\* of the direction for amount a', made while that entry is fresh, returns
\* the synthetic quote (b / a) * a' unless the exact cache holds a fresh
\* quote under the key of a', which is returned as it is.  Amounts are
\* counted in whole units of 1/100 of the to-token.
C21_UnitPriceScalesWithAmount ==
    /\ [][\A body \in UnitBodies :
            (http_response_with("engine", "200", body) /\ body[1] > 0)
            => LET q == qcall["engine"]
               IN unit_price_cache'[q.dir] =
                    [to_amount |-> body[1], from_amount |-> q.amount,
                     at |-> now]]_vars
    /\ [][\A r \in QuoteRequests :
            (/\ get_swap_quote(r[1], r[2])
             /\ r[1] \in DOMAIN unit_price_cache
             /\ is_fresh(unit_price_cache[r[1]].at))
            => LET entry == unit_price_cache[r[1]]
                   key == cache_key(r[1], r[2])
                   ret == qcall'["engine"].ret
               IN IF key \in DOMAIN quote_cache
                     /\ is_fresh(quote_cache[key].at)
                  THEN ret = quote_cache[key].quote
                  ELSE /\ ret.kind = "synthetic"
                       /\ ret.amount = r[2]
                       /\ ret.to_amount =
                            (entry.to_amount * r[2]) \div entry.from_amount]_vars

\* C21 witness: a response of 450 for 1000000 was stored and a read of
\* 2000000 of the same direction was answered with a synthetic 900
C21_Witness ==
    /\ "APT_AMI" \in DOMAIN unit_price_cache
    /\ unit_price_cache["APT_AMI"].to_amount = 450
    /\ unit_price_cache["APT_AMI"].from_amount = 1000000
    /\ qcall["engine"].src = "unit_price_cache"
    /\ qcall["engine"].amount = 2000000
    /\ qcall["engine"].ret.to_amount = 900

\* C22: every pass of ArbitrageEngine.run evaluates the two-CEX and the
\* DEX-CEX shape as well as the triangular one: a pass that ends while the
\* store holds a fresh Panora AMI/USDT quote and a fresh CEX quote with a
\* profitable spread between them has evaluated the DEX-CEX shape.
C22_RunEvaluatesDexCex ==
    [][(/\ scan'.pc = "sleep" /\ scan.pc # "sleep"
        /\ \E cex_name \in CexNames :
             LET panora == get_exchange(sym_ami_usdt, "panora")
                 cex == get_exchange("AMIUSDT",
                            IF cex_name = "Bybit" THEN "bybit" ELSE "mexc")
             IN /\ panora # NoPriceData /\ cex # NoPriceData
                /\ ~is_stale(panora) /\ ~is_stale(cex)
                /\ \/ EstimateProfitable(1, panora, cex, cex_name)
                   \/ EstimateProfitable(2, panora, cex, cex_name))
       => "DEX_CEX" \in scan'.evaluated]_vars

\* C23: execute_swap submits no transaction when the argument count of the
\* quote's payload differs from the 20 entries of the router schema: with a
\* prefetched quote it returns None at once, with a fetched quote as soon as
\* the quote is back, in both cases without a balance query, a signature or
\* a submission; only a swap whose entry function was built gets that far.
C23_SchemaMismatchAborts ==
    /\ [][\A payload \in Payloads :
            (/\ payload.present /\ payload.nargs # ROUTER_PARAM_COUNT
             /\ wallet_str
             /\ execute_swap("APT_AMI", 1000000, PayloadQuote(payload)))
            => /\ swap'.pc = "done" /\ swap'.ret = "None"
               /\ ~swap'.built]_vars
    /\ [][\A payload \in Payloads :
            (/\ payload.present /\ payload.nargs # ROUTER_PARAM_COUNT
             /\ http_response_with("executor", "200",
                                   <<300, txdata_of(payload)>>))
            => qcall'["executor"].ret.txdata = "bad"]_vars
    /\ [][(swap_quote_return /\ qcall["executor"].ret.txdata = "bad")
            => /\ swap'.pc = "done" /\ swap'.ret = "None"
               /\ ~swap'.built]_vars
    /\ [](swap.pc \in {"gas", "submit"} \/ swap.ret = "tx"
            => swap.built /\ swap.quote.txdata = "ok")

\* C23 witness: a fetched quote with a payload of the wrong length ended
\* the swap with None and nothing built
C23_Witness ==
    /\ swap.pc = "done" /\ swap.ret = "None" /\ ~swap.built
    /\ swap.quote_src = "fetched"
    /\ swap.quote.kind = "real" /\ swap.quote.txdata = "bad"

\* C24: execute_swap computes max_gas = min(MAX_GAS_UNITS, floor(0.9 *
\* balance) div GAS_UNIT_PRICE) from the wallet's balance, returns None when
\* that is below MIN_GAS_UNITS, and never signs or submits with a max_gas
\* below MIN_GAS_UNITS.
C24_GasFloor ==
    /\ [][\A apt_octas \in GasBalances \ {None} :
            swap_check_gas_with(apt_octas)
            => /\ swap'.max_gas =
                    Min(MAX_GAS_UNITS,
                        ((apt_octas * 9) \div 10) \div GAS_UNIT_PRICE)
               /\ IF swap'.max_gas < MIN_GAS_UNITS
                  THEN swap'.pc = "done" /\ swap'.ret = "None"
                  ELSE swap'.pc = "submit"]_vars
    /\ [](swap.pc = "submit" \/ swap.ret = "tx"
            => swap.max_gas >= MIN_GAS_UNITS)

\* C24 witness: a balance of 555555 octas gave 4999 gas units and the swap
\* ended with None
C24_Witness ==
    /\ swap.pc = "done" /\ swap.ret = "None" /\ swap.built
    /\ swap.max_gas = MIN_GAS_UNITS - 1

C26_PollerWritesOnePrice ==
    /\ \A symbol \in DOMAIN prices :
          "panora" \in DOMAIN prices[symbol]
          => prices[symbol]["panora"].bid = prices[symbol]["panora"].ask
    /\ last_update.exchange = "panora" => last_update.bid = last_update.ask

\* C26 witness: the poller has written a forward quote and its inverse at
\* different prices, beside a CEX quote with a spread
C26_Witness ==
    /\ "APT_AMI" \in DOMAIN prices /\ "AMI_APT" \in DOMAIN prices
    /\ "panora" \in DOMAIN prices["APT_AMI"]
    /\ "panora" \in DOMAIN prices["AMI_APT"]
    /\ prices["AMI_APT"]["panora"].bid = inv_price(prices["APT_AMI"]["panora"].bid)
    /\ prices["AMI_APT"]["panora"].bid # prices["APT_AMI"]["panora"].bid
    /\ last_update.exchange = "panora" /\ last_update.symbol = "AMI_APT"
    /\ \E symbol \in Symbols :
          /\ symbol \in DOMAIN prices /\ "bybit" \in DOMAIN prices[symbol]
          /\ prices[symbol]["bybit"].bid # prices[symbol]["bybit"].ask

\* C27: in the polled CEX feed a failure while polling one symbol (non-200
\* status, network error, timeout, parse error) leaves the polls of the
\* sibling symbols of the same cycle as they were, a sibling's good answer
\* is written to the store whatever the others did, and the cycle after a
\* failure is started.
C27_PollFailureIsContained ==
    /\ [][\A symbol \in Symbols :
            /\ \A outcome \in MexcOutcomes \ {"ok"} :
                  poll_symbol_with(symbol, outcome)
                  => /\ feed'.pc = "gather"
                     /\ feed'.poll[symbol] = "done"
                     /\ \A sibling \in Symbols \ {symbol} :
                           feed'.poll[sibling] = feed.poll[sibling]
                     /\ prices' = prices
            /\ poll_symbol_with(symbol, "ok")
                  => /\ get_exchange_of(prices', symbol, "mexc") =
                            PriceData(80, 81, 100, 100)
                     /\ feed'.pc = "gather"]_vars
    /\ \A n \in 1..(MaxCycles - 1) :
          (feed.pc = "gather" /\ feed.cycle = n
              /\ \E symbol \in Symbols : feed.error[symbol] # "none")
          ~> (feed.pc = "gather" /\ feed.cycle = n + 1)

\* C27 witness: in the cycle after one with a failure, one symbol's poll has
\* failed and its sibling's quote is written
C27_Witness ==
    /\ feed.pc = "gather" /\ feed.cycle = 2 /\ feed.logged = 2
    /\ feed.poll = [symbol \in Symbols |-> "done"]
    /\ feed.error["AMIUSDT"] = "parse_error"
    /\ feed.error["APTUSDT"] = "none"
    /\ last_update.exchange = "mexc" /\ last_update.symbol = "APTUSDT"
    /\ get_exchange("APTUSDT", "mexc").bid = 80

\* C28: in the triangular check the rate the post-verification profit is
\* computed with is never more favourable than the verified rate.
C28_RepricingIsPessimistic ==
    scan.shape = "TRI"
    => \A i \in 1..Len(scan.log) :
          scan.log[i].outcome # "none"
          => scan.log[i].adjusted_rate <= scan.log[i].v_rate

\* C29: a DEX-CEX check that goes past its staleness test has read no quote
\* older than dex_cex_quote_max_age_s, and a triangular check that goes past
\* its staleness tests has read no CEX quote, and no Panora quote of a
\* direction it verifies, older than tri_quote_max_age_s.
C29_ShapeSpecificStaleness ==
    [][/\ \A a \in QuoteAges, b \in QuoteAges, cex_name \in CexNames :
            LET panora == Book(60, 70, 72, 72, a)
                cex == Book(80, 81, 100, 100, b)
            IN (check_dex_cex_priced(panora, cex, cex_name)
                  /\ echeck'.exit # "stale")
               => /\ age(panora) <= dex_cex_quote_max_age_s
                  /\ age(cex) <= dex_cex_quote_max_age_s
       /\ \A a \in QuoteAges, c \in QuoteAges, cex_name \in CexNames :
            LET cex_ami == Book(6, 7, 100, 100, a)
                cex_apt == Book(4990, 5000, 100, 100, a)
                pan1 == Book(1000, 1000, 10000, 10000, c)
            IN (check_triangular_priced(cex_ami, cex_apt, pan1, NoPriceData,
                                        cex_name)
                  /\ echeck'.exit # "stale")
               => /\ age(cex_ami) <= tri_quote_max_age_s
                  /\ age(cex_apt) <= tri_quote_max_age_s
                  /\ epc' = "d1_verify" => age(pan1) <= tri_quote_max_age_s
      ]_vars

\* C30: with skip_panora_verify set, a candidate whose estimated profit
\* exceeds the threshold goes to the quote fetch with no cooldown test and
\* no verification call, and the return of that fetch is followed at once
\* by the dispatch of the execution.
C30_SkipVerifyFetchesAndDispatches ==
    [][skip_panora_verify
         => /\ epc' \notin {"d1_verify", "d2_verify"}
            /\ echeck'.exit # "cooldown"
            /\ last_verify' = last_verify
            /\ verify_log' = verify_log
            /\ (epc \in {"d1_skip", "d2_skip"} /\ epc' # epc)
                 => /\ epc' = "idle"
                    /\ echeck'.exit = "skip_verify"
                    /\ last_dispatch' =
                         [shape |-> echeck.shape,
                          direction |-> dispatch_direction(echeck.shape,
                                           IF epc = "d1_skip" THEN 1 ELSE 2),
                          cex_name |-> echeck.cex_name]]_vars

\* C31 as stated: a 429 or 503 answer to an attempt that is not the last is
\* followed by one sleep, for the Retry-After value whenever the header is
\* present and for base_delay * 2^attempt otherwise.
C31_SleepsForHeaderWhenPresent ==
    [][\A status \in {"429", "503"}, body \in ResponseBodies,
          retry_after \in RetryAfterHeaders :
          (http_response_hdr("engine", status, body, retry_after)
             /\ ~is_last_attempt(qcall["engine"].attempt))
          => /\ qcall'["engine"].pc = "backoff"
             /\ qcall'["engine"].wait_time =
                   IF retry_after.present THEN retry_after.value
                   ELSE base_retry_delay * 2^(qcall["engine"].attempt)]_vars

\* C31: between two attempts of one get_swap_quote call answered with 429
\* or 503 the client sleeps exactly once, for the Retry-After value when the
\* header is a string of decimal digits and for base_delay * 2^attempt
\* otherwise (attempt counted from 0); the next attempt starts from that
\* sleep only, and no sleep follows the last attempt.
C31_OneBackoffSleepPerRetry ==
    /\ [](LET q == qcall["engine"]
          IN /\ q.pc = "http" => q.sleeps = q.attempt /\ q.wait_time = None
             /\ q.pc = "backoff" => /\ q.sleeps = q.attempt + 1
                                    /\ q.attempt < max_retries - 1
                                    /\ q.wait_time # None
             /\ q.pc \in {"idle", "done"} => q.wait_time = None)
    /\ [][\A status \in {"429", "503"}, body \in ResponseBodies,
              retry_after \in RetryAfterHeaders :
            http_response_hdr("engine", status, body, retry_after)
            => IF is_last_attempt(qcall["engine"].attempt)
               THEN /\ qcall'["engine"].pc = "done"
                    /\ qcall'["engine"].wait_time = None
               ELSE /\ qcall'["engine"].pc = "backoff"
                    /\ qcall'["engine"].sleeps = qcall["engine"].sleeps + 1
                    /\ qcall'["engine"].wait_time =
                          IF retry_after.present /\ retry_after.isdigit
                          THEN retry_after.value
                          ELSE base_retry_delay * 2^(qcall["engine"].attempt)
       ]_vars
    /\ [][qcall'["engine"].attempt = qcall["engine"].attempt + 1
            => /\ qcall["engine"].pc = "backoff"
               /\ qcall'["engine"].sleeps = qcall["engine"].sleeps]_vars

\* C31 witness: the second attempt was answered with 429 and a Retry-After
\* of 3, and the client sleeps 3 s for the second time in this call
C31_Witness ==
    /\ qcall["engine"].pc = "backoff"
    /\ qcall["engine"].attempt = 1
    /\ qcall["engine"].sleeps = 2
    /\ qcall["engine"].wait_time = 3
    /\ rate_limited

\* C32: every 429 or 503 response sets the client's rate_limited flag, the
\* next 200 response resets it, nothing else changes it, and a call whose
\* last attempt is answered with 429 or 503 ends with the flag set.
C32_RateLimitedFlag ==
    /\ [][\A status \in HttpStatuses, body \in ResponseBodies,
            retry_after \in RetryAfterHeaders :
            http_response_hdr("engine", status, body, retry_after)
            => /\ status \in {"429", "503"} => rate_limited'
               /\ status = "200" => ~rate_limited'
               /\ status \notin {"200", "429", "503"}
                    => rate_limited' = rate_limited
               /\ (status \in {"429", "503"}
                     /\ is_last_attempt(qcall["engine"].attempt))
                    => qcall'["engine"].pc = "done" /\ rate_limited']_vars
    /\ [][rate_limited' # rate_limited => qcall["engine"].pc = "http"]_vars

\* C32 witness: the last attempt of the client's first call is in flight
\* and the flag, down at the start, is up: an earlier attempt of this call
\* was answered with 429 or 503
C32_Witness ==
    /\ ncalls = 1
    /\ qcall["engine"].pc = "http"
    /\ qcall["engine"].attempt = max_retries - 1
    /\ rate_limited

\* C33: the streaming feed sleeps 1 s after its first failure, twice the
\* last sleep after each further failed connect, never more than
\* MAX_RECONNECT_DELAY, and 1 s after the failure of a connection that had
\* been established: every successful connect resets the delay to 1.
C33_ReconnectDelay ==
    /\ [](feed.pc # "idle"
            => /\ feed.reconnect_delay >= 1
               /\ feed.reconnect_delay <= MAX_RECONNECT_DELAY)
    /\ [](feed.pc \in {"subscribed", "receiving"} => feed.reconnect_delay = 1)
    /\ [][feed.pc = "idle" /\ feed'.pc # "idle"
            => feed'.reconnect_delay = 1]_vars
    /\ [][feed'.pc = "backoff" /\ feed.pc # "backoff"
            => /\ feed'.reconnect_delay = feed.reconnect_delay
               /\ feed.pc \in {"subscribed", "receiving"}
                    => feed'.reconnect_delay = 1]_vars
    /\ [][feed.pc = "backoff" /\ feed'.pc # "backoff"
            => /\ feed'.pc = "connecting"
               /\ feed'.reconnect_delay =
                     IF 2 * feed.reconnect_delay <= MAX_RECONNECT_DELAY
                     THEN 2 * feed.reconnect_delay
                     ELSE MAX_RECONNECT_DELAY]_vars
    /\ [][feed.pc = "connecting" /\ feed'.pc = "subscribed"
            => feed'.reconnect_delay = 1]_vars

\* C33 witness: after enough failed connects in a row the feed sleeps the
\* capped delay
C33_Witness ==
    /\ feed.pc = "backoff"
    /\ feed.error \in ConnectErrors
    /\ feed.reconnect_delay = MAX_RECONNECT_DELAY

\* C35: a lookup hands back the exact-quote entry of its key only when that
\* entry is younger than the TTL, and whenever the exact cache is written no
\* entry older than 2 * TTL is left in it.
C35_FreshStaleEvicted ==
    [][/\ (qcall'["engine"] # qcall["engine"]
             /\ qcall'["engine"].src = "exact_cache")
          => /\ qcall'["engine"].exact_age # None
             /\ qcall'["engine"].exact_age < QUOTE_CACHE_TTL
             /\ \E k \in DOMAIN quote_cache :
                   /\ k[1] = qcall'["engine"].dir
                   /\ now - quote_cache[k].at = qcall'["engine"].exact_age
                   /\ quote_cache[k].quote = qcall'["engine"].ret
       /\ quote_cache' # quote_cache
          => \A k \in DOMAIN quote_cache' :
                now' - quote_cache'[k].at <= 2 * QUOTE_CACHE_TTL]_vars

\* the second request went out for a key with no entry, and once its quote
\* was stored the entry of the first request, older than 2 * TTL, was gone
C35_Witness ==
    /\ ncalls = 2 /\ total_requests = 2
    /\ qcall["engine"].pc = "done" /\ qcall["engine"].src = "http"
    /\ qcall["engine"].exact_age = None
    /\ DOMAIN quote_cache = {cache_key(qcall["engine"].dir, qcall["engine"].amount)}
    /\ now > StartTime + 2 * QUOTE_CACHE_TTL

\* C36: the run loop moves on only when no detection call is in flight, it
\* calls the Bybit check before the MEXC check of the same pass, and a
\* verification call is issued only when none is pending: either by a
\* detection call that starts while the engine is idle, or by the one
\* detection call in flight going from its direction 1 to its direction 2.
C36_DetectionCallsAreSerial ==
    [][/\ scan'.pc # scan.pc => (epc = "idle" /\ scan'.shape = "RUN")
       /\ (scan'.pc # scan.pc /\ scan.pc = "Bybit") => scan'.pc = "MEXC"
       /\ (scan'.pc # scan.pc /\ scan'.pc = "MEXC") => scan.pc = "Bybit"
       /\ (scan'.pc # scan.pc /\ scan.pc = "MEXC") => scan'.pc = "sleep"
       /\ echeck'.cex_name # echeck.cex_name => epc = "idle"
       /\ Len(verify_log') > Len(verify_log)
          => \/ epc = "idle"
             \/ /\ epc = "d1_verify" /\ epc' = "d2_verify"
                /\ scan' = scan
                /\ echeck'.cex_name = echeck.cex_name]_vars

\* the MEXC check of a pass awaits its verification call, after the Bybit
\* check of the same pass had awaited its own
C36_Witness ==
    /\ scan.shape = "RUN" /\ scan.pc = "sleep"
    /\ epc \in {"d1_verify", "d2_verify"} /\ echeck.cex_name = "MEXC"
    /\ Len(verify_log) = 2
    /\ verify_log[1].key[2] = "Bybit" /\ verify_log[2].key[2] = "MEXC"

\* C37: a triangular balance gate that passed had read a wallet balance of at
\* least the required input amount and a CEX balance of at least the hedge
\* amount, whatever the two balance reads came back with.
C37_GatePassNeedsBothBalances ==
    \A t \in Tasks :
        (signals[t].type \in TriSignalTypes /\ call[t].bal_check = "PASS") =>
            /\ wallet_str /\ panora_executor
            /\ call[t].wallet_bal # None
            /\ call[t].wallet_bal >= call[t].safe_qty
            /\ call[t].cex_bal >= call[t].hedge_qty

\* C38: when a verification call returns and an execution is dispatched, the
\* CEX quote of the store that the detection call read, and whose price the
\* dispatch carries, is not stale at that moment.
C38_DispatchOnFreshQuotes ==
    [][Len(scan'.tasks) > Len(scan.tasks)
          => IF scan.shape = "TRI"
             THEN ~is_stale(scan.cex_ami) /\ ~is_stale(scan.cex_apt)
             ELSE ~is_stale(scan.cex)]_vars

\* what a detection call leaves behind when it stops at direction 1, in
\* skip-verify mode (the quote fetch of direction 1 is awaited) or inside the
\* cooldown of direction 1 (plain return): no verification issued, nothing
\* of direction 2
StoppedAtDirection1 ==
    /\ epc' = IF skip_panora_verify THEN "d1_skip" ELSE "idle"
    /\ echeck'.exit = IF skip_panora_verify THEN "none" ELSE "cooldown"
    /\ UNCHANGED <<verify_log, last_verify, last_dispatch>>

\* C39: a _check_dex_cex or _check_triangular_apt_ami call whose direction 1
\* is above the profit threshold, and which runs in skip-verify mode or
\* inside the verification cooldown of direction 1, stops at direction 1
\* whether or not direction 2 is profitable on fresh quotes; the skip-verify
\* fetch of direction 1, once back, ends the call.
C39_Direction2NotEvaluated ==
    [][/\ \A cex_name \in CexNames, in \in DexCexInputs :
             (/\ check_dex_cex_with(cex_name, in[1], in[2], in[3], in[4])
              /\ ~in[1] /\ ~in[2] /\ in[3]
              /\ (skip_panora_verify \/ in_cooldown(vkey("DEX_CEX", 1, cex_name))))
                => StoppedAtDirection1
       /\ \A cex_name \in CexNames, in \in TriInputs :
             (/\ check_triangular_apt_ami_with(cex_name, in[1], in[2], in[3],
                                               in[4], in[5], in[6])
              /\ ~in[1] /\ ~in[2] /\ ~in[3] /\ in[5]
              /\ (skip_panora_verify \/ in_cooldown(vkey("TRI", 1, cex_name))))
                => StoppedAtDirection1
       /\ epc = "d1_skip"
             => (epc' \in {"idle", "crashed"} /\ verify_log' = verify_log)]_vars

\* a triangular call found direction 1 inside its cooldown and returned:
\* direction 1 is the only direction ever verified
C39_Witness ==
    /\ epc = "idle"
    /\ echeck.shape = "TRI" /\ echeck.exit = "cooldown"
    /\ Len(verify_log) = 1 /\ verify_log[1].key = vkey("TRI", 1, echeck.cex_name)
    /\ ~skip_panora_verify

============================================================================
